---- MODULE Spec2Model ----
(***************************************************************************)
(* Subtitle payload extraction and encoding recovery (src/utils/unzip.ts). *)
(*                                                                         *)
(* JavaScript strings are modelled as sequences of UTF-16 code units       *)
(* (integers), byte buffers as sequences of integers 0..255.               *)
(***************************************************************************)
EXTENDS Integers, Sequences, FiniteSets, TLC

(***************************************************************************)
(* Code units the program's regular expressions and literals name.         *)
(***************************************************************************)
Ch ==
  [ NUL |-> 0, TAB |-> 9, LF |-> 10, VT |-> 11, FF |-> 12, CR |-> 13,
    SP |-> 32, LBRACE |-> 123, RBRACE |-> 125, DOT |-> 46,
    BOM |-> 65279, REPL |-> 65533, NONCHAR_FFFE |-> 65534, NONCHAR_FFFF |-> 65535,
    EURO |-> 8364 ]

IsDigit(c) == c >= 48 /\ c <= 57
IsUpper(c) == c >= 65 /\ c <= 90
IsLower(c) == c >= 97 /\ c <= 122
IsLetter(c) == IsUpper(c) \/ IsLower(c)

\* String.prototype.toLowerCase on the code units the file names use (ASCII).
LowerChar(c) == IF IsUpper(c) THEN c + 32 ELSE c
toLowerCase(s) == [i \in 1..Len(s) |-> LowerChar(s[i])]

\* String.prototype.endsWith
endsWith(s, suffix) ==
  /\ Len(s) >= Len(suffix)
  /\ \A i \in 1..Len(suffix) : s[Len(s) - Len(suffix) + i] = suffix[i]

\* String.prototype.slice(from) for 0 <= from (0-based).
sliceFrom(s, from) == IF from >= Len(s) THEN <<>> ELSE SubSeq(s, from + 1, Len(s))

At(s, i, c) == i >= 1 /\ i <= Len(s) /\ s[i] = c

(***************************************************************************)
(* Loops.  A loop of the program is the repetition of a step on the record *)
(* of its variables; a scan of a string is the loop that a regular         *)
(* expression with the g flag, or a for loop over an array, performs.      *)
(***************************************************************************)
RECURSIVE Fuel(_)
\* the least f with 2^f >= n
Fuel(n) == IF n <= 1 THEN 0 ELSE 1 + Fuel((n + 1) \div 2)

RECURSIVE Iterate(_, _, _, _)
\* Step repeated on st until Done holds, at most 2^fuel times; the first half of the
\* repetitions is evaluated to a value before the second half starts
Iterate(Step(_), Done(_), st, fuel) ==
  IF Done(st) THEN st
  ELSE IF fuel = 0 THEN Step(st)
  ELSE CHOOSE last \in {Iterate(Step, Done, half, fuel - 1) :
                          half \in {Iterate(Step, Done, st, fuel - 1)}} : TRUE

\* the loop whose step at position st.i moves st.i forward, until st.i passes the end
\* of s
Scan(s, Step(_), st) == Iterate(Step, LAMBDA t : t.i > Len(s), st, Fuel(Len(s)))

\* length of the longest run of elements that satisfy Test, from 1-based index i of s
RunLength(s, i, Test(_)) ==
  IF i > Len(s) THEN 0
  ELSE (CHOOSE k \in i..(Len(s) + 1) :
          /\ k = Len(s) + 1 \/ ~Test(s[k])
          /\ \A j \in i..(k - 1) : Test(s[j])) - i

(***************************************************************************)
(* stripBOM and cleanSubtitleText                                          *)
(***************************************************************************)
stripBOM(content) ==
  IF Len(content) > 0 /\ content[1] = Ch.BOM THEN sliceFrom(content, 1) ELSE content

\* the class [\uFFFD\u0000-\u0008\u000B\u000C\u000E-\u001F]
IsLeadingJunk(c) ==
  \/ c = Ch.REPL
  \/ (c >= 0 /\ c <= 8)
  \/ c = 11 \/ c = 12
  \/ (c >= 14 /\ c <= 31)

\* length of the run of junk code units starting at 1-based index i
JunkRun(s, i) == RunLength(s, i, IsLeadingJunk)

\* text.replace(/^[\uFFFD\u0000-\u0008\u000B\u000C\u000E-\u001F]+/, "")
StripLeadingJunk(s) == sliceFrom(s, JunkRun(s, 1))

ReplaceCRLFStep(s, st) ==
  IF At(s, st.i, Ch.CR) /\ At(s, st.i + 1, Ch.LF)
  THEN [i |-> st.i + 2, acc |-> Append(st.acc, Ch.LF)]
  ELSE [i |-> st.i + 1, acc |-> Append(st.acc, s[st.i])]

\* text.replace(/\r\n/g, "\n")
ReplaceCRLF(s) == Scan(s, LAMBDA st : ReplaceCRLFStep(s, st), [i |-> 1, acc |-> <<>>]).acc

\* length of the run of code unit c starting at 1-based index i
RunOf(s, i, c) == RunLength(s, i, LAMBDA x : x = c)

\* a run of n line feeds, replaced when it has three or more
Collapsed(n) == IF n >= 3 THEN <<Ch.LF, Ch.LF>> ELSE [k \in 1..n |-> Ch.LF]

CollapseNewlinesStep(s, st) ==
  IF s[st.i] = Ch.LF
  THEN [i |-> st.i + RunOf(s, st.i, Ch.LF), acc |-> st.acc \o Collapsed(RunOf(s, st.i, Ch.LF))]
  ELSE [i |-> st.i + 1, acc |-> Append(st.acc, s[st.i])]

\* text.replace(/\n{3,}/g, "\n\n")
CollapseNewlines(s) ==
  Scan(s, LAMBDA st : CollapseNewlinesStep(s, st), [i |-> 1, acc |-> <<>>]).acc

cleanSubtitleText(t) ==
  IF t = <<>> THEN <<>>
  ELSE CollapseNewlines(ReplaceCRLF(StripLeadingJunk(stripBOM(t))))

(***************************************************************************)
(* TextDecoder.  The decoders follow the Encoding Standard the runtime's   *)
(* TextDecoder implements; their index tables are restricted to the bytes  *)
(* of ByteAlphabet, from which every modelled buffer is built.             *)
(***************************************************************************)
AsciiBytes ==
  {0, 10, 13, 32, 33, 44, 45, 46, 58, 59, 62, 63, 123, 125}
    \cup (48..57) \cup {72, 87, 97, 100, 101, 104, 105, 108, 111, 114}

\* High bytes of the byte alphabet.
HighBytes == {169, 187, 191, 195, 199, 225, 227, 239, 255}

\* Index single-byte of each encoding, restricted to HighBytes (0 = no entry).
SingleByteIndex ==
  "ibm866" :> (169 :> 1081 @@ 187 :> 9559 @@ 191 :> 9488 @@ 195 :> 9500 @@ 199 :> 9567 @@ 225 :> 1089 @@ 227 :> 1091 @@ 239 :> 1103 @@ 255 :> 160) @@
  "iso-8859-10" :> (169 :> 272 @@ 187 :> 359 @@ 191 :> 331 @@ 195 :> 195 @@ 199 :> 302 @@ 225 :> 225 @@ 227 :> 227 @@ 239 :> 239 @@ 255 :> 312) @@
  "iso-8859-13" :> (169 :> 169 @@ 187 :> 187 @@ 191 :> 230 @@ 195 :> 262 @@ 199 :> 274 @@ 225 :> 303 @@ 227 :> 263 @@ 239 :> 316 @@ 255 :> 8217) @@
  "iso-8859-14" :> (169 :> 169 @@ 187 :> 7776 @@ 191 :> 7777 @@ 195 :> 195 @@ 199 :> 199 @@ 225 :> 225 @@ 227 :> 227 @@ 239 :> 239 @@ 255 :> 255) @@
  "iso-8859-15" :> (169 :> 169 @@ 187 :> 187 @@ 191 :> 191 @@ 195 :> 195 @@ 199 :> 199 @@ 225 :> 225 @@ 227 :> 227 @@ 239 :> 239 @@ 255 :> 255) @@
  "iso-8859-2" :> (169 :> 352 @@ 187 :> 357 @@ 191 :> 380 @@ 195 :> 258 @@ 199 :> 199 @@ 225 :> 225 @@ 227 :> 259 @@ 239 :> 271 @@ 255 :> 729) @@
  "iso-8859-3" :> (169 :> 304 @@ 187 :> 287 @@ 191 :> 380 @@ 195 :> 0 @@ 199 :> 199 @@ 225 :> 225 @@ 227 :> 0 @@ 239 :> 239 @@ 255 :> 729) @@
  "iso-8859-4" :> (169 :> 352 @@ 187 :> 291 @@ 191 :> 331 @@ 195 :> 195 @@ 199 :> 302 @@ 225 :> 225 @@ 227 :> 227 @@ 239 :> 299 @@ 255 :> 729) @@
  "iso-8859-5" :> (169 :> 1033 @@ 187 :> 1051 @@ 191 :> 1055 @@ 195 :> 1059 @@ 199 :> 1063 @@ 225 :> 1089 @@ 227 :> 1091 @@ 239 :> 1103 @@ 255 :> 1119) @@
  "iso-8859-6" :> (169 :> 0 @@ 187 :> 1563 @@ 191 :> 1567 @@ 195 :> 1571 @@ 199 :> 1575 @@ 225 :> 1601 @@ 227 :> 1603 @@ 239 :> 1615 @@ 255 :> 0) @@
  "iso-8859-7" :> (169 :> 169 @@ 187 :> 187 @@ 191 :> 911 @@ 195 :> 915 @@ 199 :> 919 @@ 225 :> 945 @@ 227 :> 947 @@ 239 :> 959 @@ 255 :> 0) @@
  "iso-8859-8" :> (169 :> 169 @@ 187 :> 187 @@ 191 :> 0 @@ 195 :> 0 @@ 199 :> 0 @@ 225 :> 1489 @@ 227 :> 1491 @@ 239 :> 1503 @@ 255 :> 0) @@
  "koi8-r" :> (169 :> 9560 @@ 187 :> 9577 @@ 191 :> 169 @@ 195 :> 1094 @@ 199 :> 1075 @@ 225 :> 1040 @@ 227 :> 1062 @@ 239 :> 1054 @@ 255 :> 1066) @@
  "koi8-u" :> (169 :> 9560 @@ 187 :> 9577 @@ 191 :> 169 @@ 195 :> 1094 @@ 199 :> 1075 @@ 225 :> 1040 @@ 227 :> 1062 @@ 239 :> 1054 @@ 255 :> 1066) @@
  "macintosh" :> (169 :> 169 @@ 187 :> 170 @@ 191 :> 248 @@ 195 :> 8730 @@ 199 :> 171 @@ 225 :> 183 @@ 227 :> 8222 @@ 239 :> 212 @@ 255 :> 711) @@
  "windows-1250" :> (169 :> 169 @@ 187 :> 187 @@ 191 :> 380 @@ 195 :> 258 @@ 199 :> 199 @@ 225 :> 225 @@ 227 :> 259 @@ 239 :> 271 @@ 255 :> 729) @@
  "windows-1251" :> (169 :> 169 @@ 187 :> 187 @@ 191 :> 1111 @@ 195 :> 1043 @@ 199 :> 1047 @@ 225 :> 1073 @@ 227 :> 1075 @@ 239 :> 1087 @@ 255 :> 1103) @@
  "windows-1252" :> (169 :> 169 @@ 187 :> 187 @@ 191 :> 191 @@ 195 :> 195 @@ 199 :> 199 @@ 225 :> 225 @@ 227 :> 227 @@ 239 :> 239 @@ 255 :> 255) @@
  "windows-1253" :> (169 :> 169 @@ 187 :> 187 @@ 191 :> 911 @@ 195 :> 915 @@ 199 :> 919 @@ 225 :> 945 @@ 227 :> 947 @@ 239 :> 959 @@ 255 :> 0) @@
  "windows-1254" :> (169 :> 169 @@ 187 :> 187 @@ 191 :> 191 @@ 195 :> 195 @@ 199 :> 199 @@ 225 :> 225 @@ 227 :> 227 @@ 239 :> 239 @@ 255 :> 255) @@
  "windows-1255" :> (169 :> 169 @@ 187 :> 187 @@ 191 :> 191 @@ 195 :> 1459 @@ 199 :> 1463 @@ 225 :> 1489 @@ 227 :> 1491 @@ 239 :> 1503 @@ 255 :> 0) @@
  "windows-1256" :> (169 :> 169 @@ 187 :> 187 @@ 191 :> 1567 @@ 195 :> 1571 @@ 199 :> 1575 @@ 225 :> 1604 @@ 227 :> 1605 @@ 239 :> 239 @@ 255 :> 1746) @@
  "windows-1257" :> (169 :> 169 @@ 187 :> 187 @@ 191 :> 230 @@ 195 :> 262 @@ 199 :> 274 @@ 225 :> 303 @@ 227 :> 263 @@ 239 :> 316 @@ 255 :> 729) @@
  "windows-1258" :> (169 :> 169 @@ 187 :> 187 @@ 191 :> 191 @@ 195 :> 258 @@ 199 :> 199 @@ 225 :> 225 @@ 227 :> 259 @@ 239 :> 239 @@ 255 :> 255) @@
  "windows-874" :> (169 :> 3593 @@ 187 :> 3611 @@ 191 :> 3615 @@ 195 :> 3619 @@ 199 :> 3623 @@ 225 :> 3649 @@ 227 :> 3651 @@ 239 :> 3663 @@ 255 :> 0) @@
  "x-mac-cyrillic" :> (169 :> 169 @@ 187 :> 1111 @@ 191 :> 1114 @@ 195 :> 8730 @@ 199 :> 171 @@ 225 :> 1073 @@ 227 :> 1075 @@ 239 :> 1087 @@ 255 :> 8364)

\* index Big5: <<pointer, code units>>, for the pointers the byte alphabet reaches
Big5IndexEntries ==
  {
    <<6288, <<21638>>>>, <<6303, <<22378>>>>, <<6313, <<22852>>>>, <<6316, <<22971>>>>,
    <<6317, <<22996>>>>, <<6320, <<22993>>>>, <<6321, <<22982>>>>, <<6324, <<22987>>>>,
    <<6327, <<22959>>>>, <<6330, <<22981>>>>, <<6339, <<23451>>>>, <<6341, <<23624>>>>,
    <<6351, <<24088>>>>, <<6369, <<24447>>>>, <<6373, <<24573>>>>, <<6377, <<24596>>>>,
    <<6381, <<24618>>>>, <<6407, <<25256>>>>, <<6409, <<25276>>>>, <<6421, <<25260>>>>,
    <<9114, <<33152>>>>, <<9129, <<33988>>>>, <<9139, <<33980>>>>, <<9142, <<34623>>>>,
    <<9143, <<34588>>>>, <<9146, <<34597>>>>, <<9147, <<34612>>>>, <<9150, <<34615>>>>,
    <<9153, <<35074>>>>, <<9156, <<35064>>>>, <<9165, <<35469>>>>, <<9167, <<35475>>>>,
    <<9177, <<35981>>>>, <<9195, <<36953>>>>, <<9199, <<36955>>>>, <<9203, <<37237>>>>,
    <<9207, <<37496>>>>, <<9233, <<38935>>>>, <<9235, <<39087>>>>, <<9247, <<40180>>>>,
    <<9742, <<28582>>>>, <<9757, <<29544>>>>, <<9767, <<30264>>>>, <<9770, <<30437>>>>,
    <<9771, <<30624>>>>, <<9774, <<30629>>>>, <<9775, <<30952>>>>, <<9778, <<30951>>>>,
    <<9781, <<31310>>>>, <<9784, <<31307>>>>, <<9793, <<31718>>>>, <<9795, <<31958>>>>,
    <<9805, <<32633>>>>, <<9823, <<34115>>>>, <<9827, <<34142>>>>, <<9831, <<34722>>>>,
    <<9835, <<35122>>>>, <<9861, <<36420>>>>, <<9863, <<36404>>>>, <<9875, <<36984>>>>,
    <<10370, <<39230>>>>, <<10385, <<39880>>>>, <<10395, <<22750>>>>, <<10398, <<23541>>>>,
    <<10399, <<40848>>>>, <<10402, <<25079>>>>, <<10403, <<25078>>>>, <<10406, <<25871>>>>,
    <<10409, <<27365>>>>, <<10412, <<27347>>>>, <<10421, <<29197>>>>, <<10423, <<29346>>>>,
    <<10433, <<30663>>>>, <<10451, <<32694>>>>, <<10455, <<34281>>>>, <<10459, <<34276>>>>,
    <<10463, <<34821>>>>, <<10489, <<36692>>>>, <<10491, <<36781>>>>, <<10503, <<37846>>>>,
    <<10998, <<12385>>>>, <<11013, <<12400>>>>, <<11023, <<12410>>>>, <<11026, <<12413>>>>,
    <<11027, <<12414>>>>, <<11030, <<12417>>>>, <<11031, <<12418>>>>, <<11034, <<12421>>>>,
    <<11037, <<12424>>>>, <<11040, <<12427>>>>, <<11049, <<12449>>>>, <<11051, <<12451>>>>,
    <<11061, <<12461>>>>, <<11079, <<12479>>>>, <<11083, <<12483>>>>, <<11087, <<12487>>>>,
    <<11091, <<12491>>>>, <<11117, <<12517>>>>, <<11119, <<12519>>>>, <<11131, <<12531>>>>,
    <<15080, <<22037>>>>, <<15095, <<22652>>>>, <<15105, <<22673>>>>, <<15108, <<22658>>>>,
    <<15109, <<22664>>>>, <<15112, <<22671>>>>, <<15113, <<22782>>>>, <<15116, <<23278>>>>,
    <<15119, <<23274>>>>, <<15122, <<23275>>>>, <<15131, <<23272>>>>, <<15133, <<23415>>>>,
    <<15143, <<23927>>>>, <<15161, <<24281>>>>, <<15165, <<24387>>>>, <<15169, <<24872>>>>,
    <<15173, <<24947>>>>, <<15199, <<25725>>>>, <<15201, <<25702>>>>, <<15213, <<25708>>>>,
    <<15394, <<31272>>>>, <<15409, <<31630>>>>, <<15419, <<31930>>>>, <<15422, <<32194>>>>,
    <<15423, <<32163>>>>, <<15426, <<32192>>>>, <<15427, <<32197>>>>, <<15430, <<32196>>>>,
    <<15433, <<32204>>>>, <<15436, <<32150>>>>, <<15445, <<32738>>>>, <<15447, <<32741>>>>,
    <<15457, <<33164>>>>, <<15475, <<33946>>>>, <<15479, <<33959>>>>, <<15483, <<33991>>>>,
    <<15487, <<33967>>>>, <<15513, <<34625>>>>, <<15515, <<34630>>>>, <<15527, <<34599>>>>,
    <<17278, <<38985>>>>, <<17293, <<39329>>>>, <<17303, <<39422>>>>, <<17306, <<39614>>>>,
    <<17307, <<39678>>>>, <<17310, <<39676>>>>, <<17311, <<39752>>>>, <<17314, <<39838>>>>,
    <<17317, <<39841>>>>, <<17320, <<39814>>>>, <<17329, <<40239>>>>, <<17331, <<40248>>>>,
    <<17341, <<40237>>>>, <<17359, <<22172>>>>, <<17363, <<22169>>>>, <<17367, <<23658>>>>,
    <<17371, <<25048>>>>, <<17397, <<27334>>>>, <<17399, <<27318>>>>, <<17411, <<28677>>>>
  }

\* index gb18030: <<pointer, code units>>, for the pointers the byte alphabet reaches
GB18030IndexEntries ==
  {
    <<7608, <<12329>>>>, <<7623, <<65508>>>>, <<7633, <<12443>>>>, <<7636, <<12542>>>>,
    <<7637, <<12294>>>>, <<7640, <<65097>>>>, <<7641, <<65098>>>>, <<7644, <<65101>>>>,
    <<7647, <<65104>>>>, <<7650, <<65108>>>>, <<7659, <<65118>>>>, <<7661, <<65120>>>>,
    <<7704, <<9477>>>>, <<7722, <<9495>>>>, <<7726, <<9499>>>>, <<7730, <<9503>>>>,
    <<7734, <<9507>>>>, <<7760, <<9533>>>>, <<7762, <<9535>>>>, <<7774, <<9547>>>>,
    <<11028, <<31819>>>>, <<11043, <<31835>>>>, <<11053, <<31845>>>>, <<11056, <<31848>>>>,
    <<11057, <<31849>>>>, <<11060, <<31852>>>>, <<11061, <<31853>>>>, <<11064, <<31856>>>>,
    <<11067, <<31861>>>>, <<11070, <<31864>>>>, <<11079, <<31876>>>>, <<11081, <<31878>>>>,
    <<11124, <<21719>>>>, <<11142, <<25442>>>>, <<11146, <<35938>>>>, <<11150, <<24187>>>>,
    <<11154, <<30970>>>>, <<11180, <<20250>>>>, <<11182, <<27719>>>>, <<11194, <<20249>>>>,
    <<11788, <<32259>>>>, <<11803, <<32274>>>>, <<11813, <<32284>>>>, <<11816, <<32287>>>>,
    <<11817, <<32288>>>>, <<11820, <<32291>>>>, <<11821, <<32292>>>>, <<11824, <<32295>>>>,
    <<11827, <<32298>>>>, <<11830, <<32301>>>>, <<11839, <<32310>>>>, <<11841, <<32312>>>>,
    <<11884, <<21679>>>>, <<11902, <<28821>>>>, <<11906, <<38752>>>>, <<11910, <<26869>>>>,
    <<11914, <<22771>>>>, <<11940, <<37239>>>>, <<11942, <<35044>>>>, <<11954, <<21281>>>>,
    <<12548, <<32911>>>>, <<12563, <<32947>>>>, <<12573, <<32970>>>>, <<12576, <<32976>>>>,
    <<12577, <<32977>>>>, <<12580, <<32980>>>>, <<12581, <<32981>>>>, <<12584, <<32992>>>>,
    <<12587, <<32998>>>>, <<12590, <<33015>>>>, <<12599, <<33029>>>>, <<12601, <<33032>>>>,
    <<12644, <<33541>>>>, <<12662, <<27809>>>>, <<12666, <<27599>>>>, <<12670, <<22969>>>>,
    <<12674, <<20204>>>>, <<12700, <<20885>>>>, <<12702, <<21193>>>>, <<12714, <<34065>>>>,
    <<13308, <<33611>>>>, <<13323, <<33651>>>>, <<13333, <<33666>>>>, <<13336, <<33671>>>>,
    <<13337, <<33672>>>>, <<13340, <<33676>>>>, <<13341, <<33677>>>>, <<13344, <<33681>>>>,
    <<13347, <<33686>>>>, <<13350, <<33690>>>>, <<13359, <<33703>>>>, <<13361, <<33709>>>>,
    <<13404, <<31614>>>>, <<13422, <<33108>>>>, <<13426, <<24378>>>>, <<13430, <<25970>>>>,
    <<13434, <<20052>>>>, <<13460, <<36731>>>>, <<13462, <<20542>>>>, <<13474, <<31179>>>>,
    <<18248, <<37208>>>>, <<18263, <<37248>>>>, <<18273, <<37267>>>>, <<18276, <<37270>>>>,
    <<18277, <<37271>>>>, <<18280, <<37276>>>>, <<18281, <<37277>>>>, <<18284, <<37280>>>>,
    <<18287, <<37285>>>>, <<18290, <<37288>>>>, <<18299, <<37303>>>>, <<18301, <<37305>>>>,
    <<18344, <<23693>>>>, <<18362, <<23748>>>>, <<18366, <<23781>>>>, <<18370, <<23846>>>>,
    <<18374, <<23814>>>>, <<18400, <<24460>>>>, <<18402, <<24473>>>>, <<18414, <<29368>>>>,
    <<18628, <<37454>>>>, <<18643, <<37469>>>>, <<18653, <<37479>>>>, <<18656, <<37482>>>>,
    <<18657, <<37483>>>>, <<18660, <<37486>>>>, <<18661, <<37487>>>>, <<18664, <<37490>>>>,
    <<18667, <<37494>>>>, <<18670, <<37497>>>>, <<18679, <<37506>>>>, <<18681, <<37508>>>>,
    <<18724, <<24716>>>>, <<18742, <<24906>>>>, <<18746, <<24999>>>>, <<18750, <<24541>>>>,
    <<18754, <<38385>>>>, <<18780, <<27740>>>>, <<18782, <<27811>>>>, <<18794, <<27860>>>>,
    <<20908, <<39058>>>>, <<20923, <<39091>>>>, <<20933, <<39101>>>>, <<20936, <<39104>>>>,
    <<20937, <<39105>>>>, <<20940, <<39108>>>>, <<20941, <<39109>>>>, <<20944, <<39112>>>>,
    <<20947, <<39115>>>>, <<20950, <<39119>>>>, <<20959, <<39137>>>>, <<20961, <<39139>>>>,
    <<21004, <<38137>>>>, <<21022, <<38168>>>>, <<21026, <<38175>>>>, <<21030, <<38185>>>>,
    <<21034, <<38196>>>>, <<21060, <<38237>>>>, <<21062, <<38242>>>>, <<21074, <<38258>>>>
  }

\* index jis0208: <<pointer, code units>>, for the pointers the byte alphabet reaches
Jis0208IndexEntries ==
  {
    <<2452, <<30352>>>>, <<2470, <<31639>>>>, <<2474, <<36059>>>>, <<2478, <<26283>>>>,
    <<2482, <<20282>>>>, <<2508, <<27663>>>>, <<2510, <<31049>>>>, <<2522, <<35468>>>>,
    <<2828, <<39135>>>>, <<2846, <<28024>>>>, <<2850, <<30495>>>>, <<2854, <<33251>>>>,
    <<2858, <<35386>>>>, <<2884, <<21561>>>>, <<2886, <<24101>>>>, <<2898, <<38543>>>>,
    <<3204, <<36799>>>>, <<3222, <<30701>>>>, <<3226, <<32829>>>>, <<3230, <<37723>>>>,
    <<3234, <<26029>>>>, <<3260, <<31209>>>>, <<3262, <<33590>>>>, <<3274, <<34935>>>>,
    <<3580, <<31152>>>>, <<3598, <<28611>>>>, <<3602, <<33215>>>>, <<3606, <<24052>>>>,
    <<3610, <<26487>>>>, <<3636, <<29028>>>>, <<3638, <<36023>>>>, <<3650, <<25293>>>>,
    <<6024, <<29944>>>>, <<6039, <<30029>>>>, <<6042, <<30043>>>>, <<6046, <<30052>>>>,
    <<6049, <<30061>>>>, <<6050, <<30072>>>>, <<6052, <<30086>>>>, <<6053, <<30087>>>>,
    <<6054, <<30068>>>>, <<6056, <<30089>>>>, <<6057, <<30082>>>>, <<6060, <<30109>>>>,
    <<6063, <<30146>>>>, <<6066, <<30133>>>>, <<6075, <<30179>>>>, <<6077, <<30206>>>>,
    <<6080, <<30209>>>>, <<6082, <<30202>>>>, <<6094, <<30260>>>>, <<6120, <<30355>>>>,
    <<6138, <<30459>>>>, <<6142, <<30505>>>>, <<6146, <<30502>>>>, <<6150, <<30535>>>>,
    <<6176, <<30691>>>>, <<6178, <<30716>>>>, <<6190, <<30860>>>>, <<6212, <<31020>>>>,
    <<6230, <<31161>>>>, <<6234, <<31207>>>>, <<6238, <<31240>>>>, <<6242, <<31264>>>>,
    <<6268, <<31429>>>>, <<6270, <<31423>>>>, <<6282, <<31458>>>>, <<6400, <<32063>>>>,
    <<6415, <<32125>>>>, <<6425, <<32162>>>>, <<6428, <<32184>>>>, <<6429, <<32159>>>>,
    <<6432, <<32221>>>>, <<6433, <<32228>>>>, <<6436, <<32242>>>>, <<6439, <<32266>>>>,
    <<6442, <<32274>>>>, <<6451, <<32309>>>>, <<6453, <<32323>>>>, <<6496, <<32608>>>>,
    <<6514, <<32697>>>>, <<6518, <<35697>>>>, <<6522, <<32725>>>>, <<6526, <<32745>>>>,
    <<6552, <<32886>>>>, <<6554, <<32893>>>>, <<6566, <<32997>>>>, <<7340, <<37728>>>>,
    <<7358, <<37860>>>>, <<7362, <<37891>>>>, <<7366, <<37931>>>>, <<7370, <<37953>>>>,
    <<7396, <<38312>>>>, <<7398, <<38317>>>>, <<7410, <<38358>>>>
  }

\* index EUC-KR: <<pointer, code units>>, for the pointers the byte alphabet reaches
EucKrIndexEntries ==
  {
    <<7607, <<52172>>>>, <<7622, <<52188>>>>, <<7632, <<52192>>>>, <<7635, <<52195>>>>,
    <<7636, <<52197>>>>, <<7639, <<52202>>>>, <<7640, <<52203>>>>, <<7643, <<52206>>>>,
    <<7646, <<52209>>>>, <<7649, <<52212>>>>, <<7704, <<322>>>>, <<7722, <<12810>>>>,
    <<7726, <<12814>>>>, <<7730, <<12818>>>>, <<7734, <<12822>>>>, <<7760, <<9392>>>>,
    <<7762, <<9394>>>>, <<7774, <<9340>>>>, <<11027, <<54022>>>>, <<11042, <<54043>>>>,
    <<11052, <<54052>>>>, <<11055, <<54058>>>>, <<11056, <<54059>>>>, <<11059, <<54063>>>>,
    <<11060, <<54065>>>>, <<11063, <<54068>>>>, <<11066, <<54071>>>>, <<11069, <<54079>>>>,
    <<11124, <<48764>>>>, <<11142, <<48867>>>>, <<11146, <<48897>>>>, <<11150, <<48921>>>>,
    <<11154, <<48960>>>>, <<11180, <<49300>>>>, <<11182, <<49312>>>>, <<11194, <<49340>>>>,
    <<11787, <<54437>>>>, <<11802, <<54453>>>>, <<11812, <<54457>>>>, <<11815, <<54460>>>>,
    <<11816, <<54461>>>>, <<11819, <<54464>>>>, <<11820, <<54465>>>>, <<11823, <<54468>>>>,
    <<11826, <<54471>>>>, <<11829, <<54474>>>>, <<11884, <<50668>>>>, <<11902, <<50704>>>>,
    <<11906, <<50716>>>>, <<11910, <<50732>>>>, <<11914, <<50739>>>>, <<11940, <<50825>>>>,
    <<11942, <<50829>>>>, <<11954, <<50872>>>>, <<12547, <<54854>>>>, <<12562, <<54878>>>>,
    <<12572, <<54882>>>>, <<12575, <<54885>>>>, <<12576, <<54886>>>>, <<12579, <<54891>>>>,
    <<12580, <<54892>>>>, <<12583, <<54895>>>>, <<12586, <<54901>>>>, <<12589, <<54904>>>>,
    <<12644, <<52309>>>>, <<12662, <<52397>>>>, <<12666, <<52412>>>>, <<12670, <<52425>>>>,
    <<12674, <<52460>>>>, <<12700, <<52632>>>>, <<12702, <<52644>>>>, <<12714, <<52729>>>>,
    <<13404, <<54383>>>>, <<13422, <<54504>>>>, <<13426, <<54523>>>>, <<13430, <<54540>>>>,
    <<13434, <<54588>>>>, <<13460, <<54672>>>>, <<13462, <<54728>>>>, <<13474, <<54764>>>>,
    <<18344, <<27927>>>>, <<18362, <<27836>>>>, <<18366, <<28836>>>>, <<18370, <<30094>>>>,
    <<18374, <<31787>>>>, <<18400, <<36956>>>>, <<18402, <<29575>>>>, <<18414, <<30862>>>>,
    <<18724, <<35186>>>>, <<18742, <<23629>>>>, <<18746, <<26045>>>>, <<18750, <<26612>>>>,
    <<18754, <<32709>>>>, <<18780, <<20449>>>>, <<18782, <<23072>>>>, <<18794, <<34218>>>>,
    <<21004, <<31661>>>>, <<21022, <<30308>>>>, <<21026, <<21344>>>>, <<21030, <<28857>>>>,
    <<21034, <<40670>>>>, <<21060, <<27491>>>>, <<21062, <<28096>>>>, <<21074, <<31243>>>>
  }

ByteAlphabet == AsciiBytes \cup HighBytes

\* a table of <<pointer, code units>> entries as a function; <<>> = no entry
IndexLookup(entries, pointer) ==
  IF \E e \in entries : e[1] = pointer
  THEN (CHOOSE e \in entries : e[1] = pointer)[2]
  ELSE <<>>

\* the code units of a code point (a surrogate pair above U+FFFF)
CodeUnits(cp) ==
  IF cp > 65535
  THEN <<55296 + ((cp - 65536) \div 1024), 56320 + ((cp - 65536) % 1024)>>
  ELSE <<cp>>

\* TextDecoder with ignoreBOM = false drops one leading U+FEFF (UTF-8, UTF-16)
DropBOM(s) == IF Len(s) > 0 /\ s[1] = Ch.BOM THEN Tail(s) ELSE s

\* the decoder's variables after a code point is emitted or an error is signalled
Utf8Reset(i, acc, ok) ==
  [i |-> i, needed |-> 0, seen |-> 0, cp |-> 0, lower |-> 128, upper |-> 191,
   acc |-> acc, ok |-> ok]

Utf8Lead(st, needed, cp, lower, upper) ==
  [i |-> st.i + 1, needed |-> needed, seen |-> 0, cp |-> cp, lower |-> lower,
   upper |-> upper, acc |-> st.acc, ok |-> st.ok]

\* the UTF-8 decoder's handler for the byte x at position st.i; ok becomes FALSE when
\* a byte sequence is invalid
Utf8Step(st, x) ==
  IF st.needed = 0 THEN
    IF x <= 127 THEN Utf8Reset(st.i + 1, Append(st.acc, x), st.ok)
    ELSE IF x >= 194 /\ x <= 223 THEN Utf8Lead(st, 1, x % 32, 128, 191)
    ELSE IF x >= 224 /\ x <= 239
      THEN Utf8Lead(st, 2, x % 16, IF x = 224 THEN 160 ELSE 128, IF x = 237 THEN 159 ELSE 191)
    ELSE IF x >= 240 /\ x <= 244
      THEN Utf8Lead(st, 3, x % 8, IF x = 240 THEN 144 ELSE 128, IF x = 244 THEN 143 ELSE 191)
    ELSE Utf8Reset(st.i + 1, Append(st.acc, Ch.REPL), FALSE)
  ELSE IF x < st.lower \/ x > st.upper
    THEN \* the byte is restored to the queue and read again
         Utf8Reset(st.i, Append(st.acc, Ch.REPL), FALSE)
  ELSE IF st.seen + 1 # st.needed
    THEN [i |-> st.i + 1, needed |-> st.needed, seen |-> st.seen + 1,
          cp |-> st.cp * 64 + (x % 64), lower |-> 128, upper |-> 191,
          acc |-> st.acc, ok |-> st.ok]
  ELSE Utf8Reset(st.i + 1, st.acc \o CodeUnits(st.cp * 64 + (x % 64)), st.ok)

\* end of queue
Utf8End(st) ==
  IF st.needed # 0 THEN [text |-> Append(st.acc, Ch.REPL), ok |-> FALSE]
  ELSE [text |-> st.acc, ok |-> st.ok]

\* a byte is read at most twice
Utf8Run(b) ==
  Utf8End(Iterate(LAMBDA st : Utf8Step(st, b[st.i]), LAMBDA st : st.i > Len(b),
                  Utf8Reset(1, <<>>, TRUE), Fuel(2 * Len(b))))

WithoutBOM(r) == [text |-> DropBOM(r.text), ok |-> r.ok]

\* UTF-8 decode: [text, ok]; ok = FALSE when some byte sequence was invalid
Utf8Decode(b) == WithoutBOM(Utf8Run(b))

IsLeadSurrogate(u) == u >= 55296 /\ u <= 56319
IsTrailSurrogate(u) == u >= 56320 /\ u <= 57343

\* the UTF-16 decoder's handler for the code unit cu at position st.i; leadSur = 0 when
\* no lead surrogate is pending
Utf16Unit(st, cu) ==
  IF st.leadSur # 0 THEN
    IF IsTrailSurrogate(cu)
    THEN [i |-> st.i + 2, leadSur |-> 0, acc |-> st.acc \o <<st.leadSur, cu>>]
    ELSE [i |-> st.i, leadSur |-> 0, acc |-> Append(st.acc, Ch.REPL)]
  ELSE IF IsLeadSurrogate(cu) THEN [i |-> st.i + 2, leadSur |-> cu, acc |-> st.acc]
  ELSE IF IsTrailSurrogate(cu)
    THEN [i |-> st.i + 2, leadSur |-> 0, acc |-> Append(st.acc, Ch.REPL)]
  ELSE [i |-> st.i + 2, leadSur |-> 0, acc |-> Append(st.acc, cu)]

\* a byte left alone at the end of the queue is an error, and so is a pending lead
\* surrogate (one error covers both)
Utf16Step(b, be, st) ==
  IF st.i = Len(b) THEN [i |-> st.i + 1, leadSur |-> 0, acc |-> Append(st.acc, Ch.REPL)]
  ELSE Utf16Unit(st, IF be THEN b[st.i] * 256 + b[st.i + 1] ELSE b[st.i + 1] * 256 + b[st.i])

Utf16End(st) == IF st.leadSur # 0 THEN Append(st.acc, Ch.REPL) ELSE st.acc

Utf16Decode(b, be) ==
  DropBOM(Utf16End(Iterate(LAMBDA st : Utf16Step(b, be, st), LAMBDA st : st.i > Len(b),
                            [i |-> 1, leadSur |-> 0, acc |-> <<>>], Fuel(2 * Len(b)))))

SingleByteChar(enc, x) ==
  IF x <= 127 THEN x
  ELSE IF x \in HighBytes /\ SingleByteIndex[enc][x] # 0 THEN SingleByteIndex[enc][x]
  ELSE Ch.REPL

SingleByteDecode(enc, b) == [i \in 1..Len(b) |-> SingleByteChar(enc, b[i])]

IsAsciiByte(x) == x <= 127
InRange(x, lo, hi) == x >= lo /\ x <= hi

\* code units of a two-byte sequence of a legacy multi-byte encoding; <<>> = none
Big5Pair(lead, x) ==
  IF InRange(x, 64, 126) \/ InRange(x, 161, 254)
  THEN LET pointer == (lead - 129) * 157 + (x - (IF x < 127 THEN 64 ELSE 98)) IN
       CASE pointer = 1133 -> <<202, 772>>
         [] pointer = 1135 -> <<202, 780>>
         [] pointer = 1164 -> <<234, 772>>
         [] pointer = 1166 -> <<234, 780>>
         [] OTHER -> IndexLookup(Big5IndexEntries, pointer)
  ELSE <<>>

GBPair(lead, x) ==
  IF InRange(x, 64, 126) \/ InRange(x, 128, 254)
  THEN IndexLookup(GB18030IndexEntries,
                   (lead - 129) * 190 + (x - (IF x < 127 THEN 64 ELSE 65)))
  ELSE <<>>

ShiftJisPair(lead, x) ==
  IF InRange(x, 64, 126) \/ InRange(x, 128, 252)
  THEN LET pointer == (lead - (IF lead < 160 THEN 129 ELSE 193)) * 188
                        + x - (IF x < 127 THEN 64 ELSE 65) IN
       IF InRange(pointer, 8836, 10715) THEN <<57344 - 8836 + pointer>>
       ELSE IndexLookup(Jis0208IndexEntries, pointer)
  ELSE <<>>

EucJpPair(lead, x) ==
  IF InRange(lead, 161, 254) /\ InRange(x, 161, 254)
  THEN IndexLookup(Jis0208IndexEntries, (lead - 161) * 94 + x - 161)
  ELSE <<>>

EucKrPair(lead, x) ==
  IF InRange(x, 65, 254)
  THEN IndexLookup(EucKrIndexEntries, (lead - 129) * 190 + (x - 65))
  ELSE <<>>

PairOf(kind, lead, x) ==
  CASE kind = "big5" -> Big5Pair(lead, x)
    [] kind = "shift_jis" -> ShiftJisPair(lead, x)
    [] kind = "euc-jp" -> EucJpPair(lead, x)
    [] kind = "euc-kr" -> EucKrPair(lead, x)

IsLeadByte(kind, x) ==
  CASE kind = "big5" -> InRange(x, 129, 254)
    [] kind = "shift_jis" -> InRange(x, 129, 159) \/ InRange(x, 224, 252)
    [] kind = "euc-jp" -> InRange(x, 161, 254)
    [] kind = "euc-kr" -> InRange(x, 129, 254)

\* a byte that decodes on its own
SingleOf(kind, x) ==
  IF IsAsciiByte(x) THEN <<x>>
  ELSE IF kind = "shift_jis" /\ x = 128 THEN <<x>>
  ELSE IF kind = "shift_jis" /\ InRange(x, 161, 223) THEN <<65377 - 161 + x>>
  ELSE <<>>

\* the second byte x of a sequence whose code units are u (<<>> = none); on an error an
\* ASCII byte is restored to the queue and read again
DoubleByteSecond(st, x, u) ==
  IF u # <<>> THEN [i |-> st.i + 1, lead |-> 0, acc |-> st.acc \o u]
  ELSE [i |-> IF IsAsciiByte(x) THEN st.i ELSE st.i + 1, lead |-> 0,
        acc |-> Append(st.acc, Ch.REPL)]

\* the handler of the Big5, Shift_JIS, EUC-JP and EUC-KR decoders for the byte x at
\* position st.i (lead = 0: no lead byte pending). The byte alphabet has neither 0x8E
\* nor 0x8F, the lead bytes of EUC-JP's other two modes.
DoubleByteStep(kind, st, x) ==
  IF st.lead # 0 THEN DoubleByteSecond(st, x, PairOf(kind, st.lead, x))
  ELSE IF SingleOf(kind, x) # <<>>
    THEN [i |-> st.i + 1, lead |-> 0, acc |-> st.acc \o SingleOf(kind, x)]
  ELSE IF IsLeadByte(kind, x) THEN [i |-> st.i + 1, lead |-> x, acc |-> st.acc]
  ELSE [i |-> st.i + 1, lead |-> 0, acc |-> Append(st.acc, Ch.REPL)]

DoubleByteEnd(st) == IF st.lead # 0 THEN Append(st.acc, Ch.REPL) ELSE st.acc

DoubleByteDecode(kind, b) ==
  DoubleByteEnd(Iterate(LAMBDA st : DoubleByteStep(kind, st, b[st.i]),
                        LAMBDA st : st.i > Len(b),
                        [i |-> 1, lead |-> 0, acc |-> <<>>], Fuel(2 * Len(b))))

\* index gb18030 ranges code point of a four-byte sequence; <<>> = none. The lead bytes
\* of the byte alphabet are all above 0x8F, so every pointer is at least 189000.
GBRanges(first, second, third, x) ==
  LET pointer == ((first - 129) * 10 + (second - 48)) * 1260 + (third - 129) * 10 + (x - 48) IN
  IF InRange(pointer, 189000, 1237575) THEN CodeUnits(65536 + pointer - 189000)
  ELSE <<>>

GBState(q, first, second, third, acc) ==
  [q |-> q, first |-> first, second |-> second, third |-> third, acc |-> acc]

GBError(q, acc) == GBState(q, 0, 0, 0, Append(acc, Ch.REPL))

\* the fourth byte x of a sequence whose code units are u
GBFourth(st, rest, u) ==
  GBState(rest, 0, 0, 0, IF u = <<>> THEN Append(st.acc, Ch.REPL) ELSE st.acc \o u)

\* the second byte x of a two-byte sequence whose code units are u
GBSecond(st, x, rest, u) ==
  IF u # <<>> THEN GBState(rest, 0, 0, 0, st.acc \o u)
  ELSE GBError(IF IsAsciiByte(x) THEN st.q ELSE rest, st.acc)

\* the gb18030 decoder's handler (also GBK's) for the byte x at the head of the queue
\* st.q of bytes still to read, rest being the queue after it
GB18030Step(st, x, rest) ==
  IF st.third # 0 THEN
    IF ~InRange(x, 48, 57) THEN GBError(<<st.second, st.third, x>> \o rest, st.acc)
    ELSE GBFourth(st, rest, GBRanges(st.first, st.second, st.third, x))
  ELSE IF st.second # 0 THEN
    IF InRange(x, 129, 254) THEN GBState(rest, st.first, st.second, x, st.acc)
    ELSE GBError(<<st.second, x>> \o rest, st.acc)
  ELSE IF st.first # 0 THEN
    IF InRange(x, 48, 57) THEN GBState(rest, st.first, x, 0, st.acc)
    ELSE GBSecond(st, x, rest, GBPair(st.first, x))
  ELSE IF IsAsciiByte(x) THEN GBState(rest, 0, 0, 0, Append(st.acc, x))
  ELSE IF x = 128 THEN GBState(rest, 0, 0, 0, Append(st.acc, Ch.EURO))
  ELSE IF InRange(x, 129, 254) THEN GBState(rest, x, 0, 0, st.acc)
  ELSE GBError(rest, st.acc)

GB18030End(st) ==
  IF st.first # 0 \/ st.second # 0 \/ st.third # 0 THEN Append(st.acc, Ch.REPL) ELSE st.acc

\* a byte is read at most four times
GB18030Decode(b) ==
  GB18030End(Iterate(LAMBDA st : GB18030Step(st, Head(st.q), Tail(st.q)),
                     LAMBDA st : st.q = <<>>,
                     GBState(b, 0, 0, 0, <<>>), Fuel(4 * Len(b))))

\* ISO-2022-JP decoder in its ASCII state: the byte alphabet has no ESC, SO or SI byte
Iso2022JpDecode(b) == [i \in 1..Len(b) |-> IF b[i] <= 127 THEN b[i] ELSE Ch.REPL]


\* The labels of the catalog and the decoder each names (Encoding Standard, "get an
\* encoding"): iso-8859-1 is windows-1252, iso-8859-9 windows-1254, tis-620 windows-874,
\* x-mac-ukrainian x-mac-cyrillic, iso-8859-8-i decodes as iso-8859-8, gbk as gb18030.
EncodingOfLabel ==
  "utf-8" :> [kind |-> "utf-8", name |-> "utf-8"] @@
  "windows-1252" :> [kind |-> "single", name |-> "windows-1252"] @@
  "windows-1256" :> [kind |-> "single", name |-> "windows-1256"] @@
  "iso-8859-6" :> [kind |-> "single", name |-> "iso-8859-6"] @@
  "iso-8859-1" :> [kind |-> "single", name |-> "windows-1252"] @@
  "windows-1251" :> [kind |-> "single", name |-> "windows-1251"] @@
  "iso-8859-5" :> [kind |-> "single", name |-> "iso-8859-5"] @@
  "iso-8859-2" :> [kind |-> "single", name |-> "iso-8859-2"] @@
  "windows-1250" :> [kind |-> "single", name |-> "windows-1250"] @@
  "iso-8859-7" :> [kind |-> "single", name |-> "iso-8859-7"] @@
  "windows-1253" :> [kind |-> "single", name |-> "windows-1253"] @@
  "iso-8859-9" :> [kind |-> "single", name |-> "windows-1254"] @@
  "windows-1254" :> [kind |-> "single", name |-> "windows-1254"] @@
  "big5" :> [kind |-> "big5", name |-> "big5"] @@
  "gbk" :> [kind |-> "gb18030", name |-> "gbk"] @@
  "shift-jis" :> [kind |-> "shift_jis", name |-> "shift_jis"] @@
  "euc-jp" :> [kind |-> "euc-jp", name |-> "euc-jp"] @@
  "euc-kr" :> [kind |-> "euc-kr", name |-> "euc-kr"] @@
  "utf-16le" :> [kind |-> "utf-16le", name |-> "utf-16le"] @@
  "utf-16be" :> [kind |-> "utf-16be", name |-> "utf-16be"] @@
  "iso-8859-8" :> [kind |-> "single", name |-> "iso-8859-8"] @@
  "windows-1255" :> [kind |-> "single", name |-> "windows-1255"] @@
  "iso-8859-8-i" :> [kind |-> "single", name |-> "iso-8859-8"] @@
  "iso-2022-jp" :> [kind |-> "iso-2022-jp", name |-> "iso-2022-jp"] @@
  "koi8-r" :> [kind |-> "single", name |-> "koi8-r"] @@
  "koi8-u" :> [kind |-> "single", name |-> "koi8-u"] @@
  "macintosh" :> [kind |-> "single", name |-> "macintosh"] @@
  "gb18030" :> [kind |-> "gb18030", name |-> "gb18030"] @@
  "tis-620" :> [kind |-> "single", name |-> "windows-874"] @@
  "windows-874" :> [kind |-> "single", name |-> "windows-874"] @@
  "x-mac-cyrillic" :> [kind |-> "single", name |-> "x-mac-cyrillic"] @@
  "iso-8859-3" :> [kind |-> "single", name |-> "iso-8859-3"] @@
  "iso-8859-4" :> [kind |-> "single", name |-> "iso-8859-4"] @@
  "iso-8859-10" :> [kind |-> "single", name |-> "iso-8859-10"] @@
  "iso-8859-13" :> [kind |-> "single", name |-> "iso-8859-13"] @@
  "iso-8859-14" :> [kind |-> "single", name |-> "iso-8859-14"] @@
  "iso-8859-15" :> [kind |-> "single", name |-> "iso-8859-15"] @@
  "windows-1257" :> [kind |-> "single", name |-> "windows-1257"] @@
  "windows-1258" :> [kind |-> "single", name |-> "windows-1258"] @@
  "x-mac-ukrainian" :> [kind |-> "single", name |-> "x-mac-cyrillic"] @@
  "cp866" :> [kind |-> "single", name |-> "ibm866"]

ENCODING_ATTEMPTS ==
  <<"utf-8", "windows-1252", "windows-1256", "iso-8859-6", "iso-8859-1",
    "windows-1251", "iso-8859-5", "iso-8859-2", "windows-1250", "iso-8859-7",
    "windows-1253", "iso-8859-9", "windows-1254", "big5", "gbk",
    "shift-jis", "euc-jp", "euc-kr", "utf-16le", "utf-16be",
    "iso-8859-8", "windows-1255", "iso-8859-8-i", "iso-2022-jp", "koi8-r",
    "koi8-u", "macintosh", "gb18030", "tis-620", "windows-874",
    "x-mac-cyrillic", "iso-8859-3", "iso-8859-4", "iso-8859-10", "iso-8859-13",
    "iso-8859-14", "iso-8859-15", "windows-1257", "windows-1258", "x-mac-ukrainian",
    "cp866">>

\* String.prototype.toLowerCase on an encoding label (labels are TLA+ strings; the only
\* labels with upper-case letters the model supplies are listed here)
LabelToLowerCase(label) ==
  CASE label = "UTF-8" -> "utf-8"
    [] label = "Windows-1256" -> "windows-1256"
    [] OTHER -> label

\* The labels the runtime's TextDecoder accepts: every label of the Encoding Standard
\* with full ICU data, the Unicode encodings alone in a small-icu build of Node.js.
RuntimeLabels(rt) ==
  IF rt = "full-icu" THEN DOMAIN EncodingOfLabel ELSE {"utf-8", "utf-16le", "utf-16be"}

\* decode throws a TypeError when fatal is set and the input is invalid
Utf8Outcome(r, fatal) ==
  IF fatal /\ ~r.ok THEN [threw |-> TRUE, text |-> <<>>] ELSE [threw |-> FALSE, text |-> r.text]

\* new TextDecoder(label, { fatal }).decode(bytes): the constructor throws a RangeError
\* on a label it does not know, decode throws a TypeError on invalid input when fatal.
TextDecode(rt, label, fatal, b) ==
  LET key == LabelToLowerCase(label) IN
  IF key \notin RuntimeLabels(rt) THEN [threw |-> TRUE, text |-> <<>>]
  ELSE
    LET e == EncodingOfLabel[key] IN
    CASE e.kind = "utf-8" -> Utf8Outcome(Utf8Decode(b), fatal)
      [] e.kind = "utf-16le" -> [threw |-> FALSE, text |-> Utf16Decode(b, FALSE)]
      [] e.kind = "utf-16be" -> [threw |-> FALSE, text |-> Utf16Decode(b, TRUE)]
      [] e.kind = "single" -> [threw |-> FALSE, text |-> SingleByteDecode(e.name, b)]
      [] e.kind = "gb18030" -> [threw |-> FALSE, text |-> GB18030Decode(b)]
      [] e.kind = "iso-2022-jp" -> [threw |-> FALSE, text |-> Iso2022JpDecode(b)]
      [] OTHER -> [threw |-> FALSE, text |-> DoubleByteDecode(e.kind, b)]

(***************************************************************************)
(* Regular-expression classes and string helpers                           *)
(***************************************************************************)
\* \s, and the code units String.prototype.trim removes
IsSpace(c) ==
  \/ InRange(c, 9, 13) \/ c = 32 \/ c = 160 \/ c = 5760
  \/ InRange(c, 8192, 8202) \/ c = 8232 \/ c = 8233 \/ c = 8239 \/ c = 8287
  \/ c = 12288 \/ c = Ch.BOM

\* the code units "." does not match
IsLineTerminator(c) == c = Ch.LF \/ c = Ch.CR \/ c = 8232 \/ c = 8233

\* text.trim().length = 0
IsBlank(s) == \A i \in 1..Len(s) : IsSpace(s[i])

\* length of the run of digits starting at 1-based index i
DigitRun(s, i) == RunLength(s, i, IsDigit)

\* length of the run of \s starting at 1-based index i
SpaceRun(s, i) == RunLength(s, i, IsSpace)

\* length of the match of /^\{[0-9]+\}\{[0-9]+\}/ at 1-based index i; 0 = no match
FramePairAt(s, i) ==
  IF ~At(s, i, Ch.LBRACE) THEN 0
  ELSE LET d1 == DigitRun(s, i + 1) IN
       IF d1 = 0 \/ ~At(s, i + 1 + d1, Ch.RBRACE) \/ ~At(s, i + 2 + d1, Ch.LBRACE) THEN 0
       ELSE LET d2 == DigitRun(s, i + 3 + d1) IN
            IF d2 = 0 \/ ~At(s, i + 3 + d1 + d2, Ch.RBRACE) THEN 0
            ELSE d1 + d2 + 4

\* text.match(/^\{[0-9]+\}\{[0-9]+\}/)
StartsWithFramePair(s) == FramePairAt(s, 1) > 0

SplitStep(s, sep, st) ==
  IF s[st.i] = sep
  THEN [i |-> st.i + 1, cur |-> <<>>, acc |-> Append(st.acc, st.cur)]
  ELSE [i |-> st.i + 1, cur |-> Append(st.cur, s[st.i]), acc |-> st.acc]

SplitEnd(st) == Append(st.acc, st.cur)

\* text.split("\n")
SplitLines(s) ==
  SplitEnd(Scan(s, LAMBDA st : SplitStep(s, Ch.LF, st), [i |-> 1, cur |-> <<>>, acc |-> <<>>]))

JoinStep(parts, sep, st) ==
  [i |-> st.i + 1,
   acc |-> IF st.i = 1 THEN parts[st.i] ELSE st.acc \o sep \o parts[st.i]]

\* parts.join(sep)
Join(parts, sep) == Scan(parts, LAMBDA st : JoinStep(parts, sep, st), [i |-> 1, acc |-> <<>>]).acc

RECURSIVE DigitsOf(_)
\* Number.prototype.toString of a non-negative integer
DigitsOf(n) == IF n < 10 THEN <<48 + n>> ELSE Append(DigitsOf(n \div 10), 48 + (n % 10))

ParseDigitsStep(s, st) == [i |-> st.i + 1, acc |-> st.acc * 10 + (s[st.i] - 48)]

\* parseInt of a string of decimal digits; exact for the numbers below 2^31, which
\* the frame numbers of the buffers decoded here are
parseInt(s) == Scan(s, LAMBDA st : ParseDigitsStep(s, st), [i |-> 1, acc |-> 0]).acc

\* String.prototype.padStart(width, "0")
padStart(s, width) == [k \in 1..(IF Len(s) >= width THEN 0 ELSE width - Len(s)) |-> 48] \o s

(***************************************************************************)
(* hasGarbledText                                                          *)
(***************************************************************************)
ClassMatch(class, c) ==
  CASE class = "REPL" -> c = Ch.REPL
    [] class = "LETTER" -> IsLetter(c)
    [] class = "FFFE" -> c = Ch.NONCHAR_FFFE
    [] class = "FFFF" -> c = Ch.NONCHAR_FFFF
    [] class = "C3" -> c = 195
    [] class = "C2" -> c = 194
    [] class = "A0BF" -> InRange(c, 160, 191)

garbledPatterns ==
  << <<"REPL", "REPL">>, <<"REPL", "LETTER">>, <<"LETTER", "REPL">>,
     <<"REPL", "REPL", "REPL">>, <<"FFFE">>, <<"FFFF">>,
     <<"C3", "A0BF">>, <<"C2", "A0BF">> >>

MatchesAt(s, i, pat) ==
  /\ i + Len(pat) - 1 <= Len(s)
  /\ \A k \in 1..Len(pat) : ClassMatch(pat[k], s[i + k - 1])

CountStep(s, pat, st) ==
  IF MatchesAt(s, st.i, pat) THEN [i |-> st.i + Len(pat), n |-> st.n + 1]
  ELSE [i |-> st.i + 1, n |-> st.n]

\* (text.match(new RegExp(pattern, "g")) || []).length: matches do not overlap
CountMatches(s, pat) == Scan(s, LAMBDA st : CountStep(s, pat, st), [i |-> 1, n |-> 0]).n

SumStep(s, st) == [i |-> st.i + 1, n |-> st.n + CountMatches(s, garbledPatterns[st.i])]

\* the count of the replacement characters plus the counts of the loop over
\* garbledPatterns
totalGarbledCount(s) ==
  Scan(garbledPatterns, LAMBDA st : SumStep(s, st), [i |-> 1, n |-> CountMatches(s, <<"REPL">>)]).n

\* the comparison ratio >= 0.01 in the place of ratio > 0.01
AtLeastOnePercent(s) ==
  IF s = <<>> THEN TRUE ELSE totalGarbledCount(s) * 100 >= Len(s)

\* ratio > 0.01, with ratio = totalGarbledCount / text.length: the quotient of two
\* integers below 2^31 is a double above the double 0.01 exactly when
\* 100 * totalGarbledCount > text.length
hasGarbledText(s) ==
  IF s = <<>> THEN TRUE ELSE totalGarbledCount(s) * 100 > Len(s)

(***************************************************************************)
(* isLikelyArabic and isReadableText                                       *)
(***************************************************************************)
IsArabic(c) ==
  \/ InRange(c, 1536, 1791) \/ InRange(c, 1872, 1919) \/ InRange(c, 2208, 2303)
  \/ InRange(c, 64336, 65023) \/ InRange(c, 65136, 65279)

isLikelyArabic(s) ==
  \E i \in 1..(Len(s) - 2) : IsArabic(s[i]) /\ IsArabic(s[i + 1]) /\ IsArabic(s[i + 2])

IsPunctuation(c) == c \in {46, 44, 33, 63, 59, 58}

\* /\d{2}:\d{2}:\d{2},\d{3}/ at 1-based index i (12 code units)
TimeAt(s, i) ==
  /\ i + 11 <= Len(s)
  /\ \A k \in {0, 1, 3, 4, 6, 7, 9, 10, 11} : IsDigit(s[i + k])
  /\ s[i + 2] = 58 /\ s[i + 5] = 58 /\ s[i + 8] = 44

\* /\d{2}:\d{2}:\d{2},\d{3}\s*-->\s*\d{2}:\d{2}:\d{2},\d{3}/ at index i
TimestampLineAt(s, i) ==
  /\ TimeAt(s, i)
  /\ LET j == i + 12 + SpaceRun(s, i + 12) IN
     /\ At(s, j, 45) /\ At(s, j + 1, 45) /\ At(s, j + 2, 62)
     /\ TimeAt(s, j + 3 + SpaceRun(s, j + 3))

hasTimestamps(s) == \E i \in 1..Len(s) : TimestampLineAt(s, i)

\* /^\s*\d+\s*\n/
hasSequentialNumbering(s) ==
  LET a == 1 + SpaceRun(s, 1)
      d == DigitRun(s, a)
      w == SpaceRun(s, a + d)
  IN  d > 0 /\ \E k \in (a + d)..(a + d + w - 1) : s[k] = Ch.LF

\* text.includes("-->")
IncludesArrow(s) == \E i \in 1..(Len(s) - 2) : s[i] = 45 /\ s[i + 1] = 45 /\ s[i + 2] = 62

isReadableText(s) ==
  IF Len(s) < 10 THEN 0
  ELSE
    LET hasNumbers == \E i \in 1..Len(s) : IsDigit(s[i])
        hasLetters == \E i \in 1..Len(s) : IsLetter(s[i])
        hasArabic == isLikelyArabic(s)
        hasPunctuation == \E i \in 1..Len(s) : IsPunctuation(s[i])
        lines == SplitLines(s)
        hasReasonableLineLength ==
          \E k \in 1..Len(lines) : Len(lines[k]) > 5 /\ Len(lines[k]) < 100
    IN  (IF hasNumbers THEN 1 ELSE 0)
      + (IF hasLetters \/ hasArabic THEN 3 ELSE 0)
      + (IF hasPunctuation THEN 1 ELSE 0)
      + (IF hasReasonableLineLength THEN 2 ELSE 0)
      + (IF hasTimestamps(s) THEN 3 ELSE 0)
      + (IF hasSequentialNumbering(s) THEN 2 ELSE 0)
      - (IF hasGarbledText(s) THEN 3 ELSE 0)
      + (IF hasArabic /\ IncludesArrow(s) THEN 3 ELSE 0)

(***************************************************************************)
(* frameToSRTTime and convertMicroDVDToSRT                                 *)
(***************************************************************************)
RECURSIVE Pow2(_)
Pow2(n) == IF n = 0 THEN 1 ELSE 2 * Pow2(n - 1)

RECURSIVE Log2Up(_, _, _)
\* the largest L >= 0 with b * 2^L <= a (a >= b > 0)
Log2Up(a, b, L) == IF b * Pow2(L + 1) <= a THEN Log2Up(a, b, L + 1) ELSE L

RECURSIVE Log2Down(_, _, _)
\* the least n >= 1 with a * 2^n >= b (0 < a < b)
Log2Down(a, b, n) == IF a * Pow2(n) < b THEN Log2Down(a, b, n + 1) ELSE n

DefaultFps == 25

\* Math.floor((totalSeconds - Math.floor(totalSeconds)) * 1000) at 25 fps, in IEEE-754
\* double arithmetic. With k = frame mod 25 the exact value is 40k, but the quotient
\* frame / 25 is rounded to 53 bits first: when it is rounded down by r/25 of a unit in
\* the last place (r = frame * 2^s mod 25, s = 52 - floor(log2(frame / 25)), 2^20 = 1
\* mod 25) and 1000 times that error exceeds half the spacing of doubles below 40k,
\* the product falls short of 40k and the floor is 40k - 1.
Milliseconds25(frame) ==
  LET k == frame % 25 IN
  IF k = 0 THEN 0
  ELSE
    LET up == frame >= 25
        L == IF up THEN Log2Up(frame, 25, 0) ELSE 0 - Log2Down(frame, 25, 1)
        s == 52 - L
        r == (k * (Pow2(s % 20) % 25)) % 25
        E == Log2Up(40 * k, 1, 0)
        short == r >= 1 /\ r <= 12 /\ up /\ 40 * r * Pow2(L + 1) > Pow2(E)
    IN  IF short THEN 40 * k - 1 ELSE 40 * k

\* frameToSRTTime(frame, 25): the hours, minutes and seconds are exact in double
\* arithmetic (a quotient that is not an integer is at least 1/90000 away from one)
frameToSRTTime(frame) ==
  LET hours == frame \div (3600 * DefaultFps)
      minutes == (frame % (3600 * DefaultFps)) \div (60 * DefaultFps)
      seconds == (frame \div DefaultFps) % 60
  IN  padStart(DigitsOf(hours), 2) \o <<58>> \o padStart(DigitsOf(minutes), 2) \o <<58>>
        \o padStart(DigitsOf(seconds), 2) \o <<44>> \o padStart(DigitsOf(Milliseconds25(frame)), 3)

\* length of the match of (.*) at 1-based index i
DotRun(s, i) == RunLength(s, i, LAMBDA c : ~IsLineTerminator(c))

Arrow == <<32, 45, 45, 62, 32>>

\* one block `${counter}\n${startTime} --> ${endTime}\n${text}\n\n` of a line that
\* matches /^\{(\d+)\}\{(\d+)\}(.*)/
SrtBlock(line, counter) ==
  LET d1 == DigitRun(line, 2)
      d2 == DigitRun(line, 4 + d1)
      startFrame == parseInt(SubSeq(line, 2, 1 + d1))
      endFrame == parseInt(SubSeq(line, 4 + d1, 3 + d1 + d2))
      from == 5 + d1 + d2
      txt == SubSeq(line, from, from + DotRun(line, from) - 1)
  IN  DigitsOf(counter) \o <<Ch.LF>> \o frameToSRTTime(startFrame) \o Arrow
        \o frameToSRTTime(endFrame) \o <<Ch.LF>> \o txt \o <<Ch.LF, Ch.LF>>

\* the loop body with counter++ ahead of the test of the match
CountEveryLine(lines, st) ==
  IF IsBlank(lines[st.i]) \/ ~StartsWithFramePair(lines[st.i])
  THEN [i |-> st.i + 1, counter |-> st.counter + 1, srtContent |-> st.srtContent]
  ELSE [i |-> st.i + 1, counter |-> st.counter + 1,
        srtContent |-> st.srtContent \o SrtBlock(lines[st.i], st.counter)]

ConvertStep(lines, st) ==
  IF IsBlank(lines[st.i]) \/ ~StartsWithFramePair(lines[st.i])
  THEN [i |-> st.i + 1, counter |-> st.counter, srtContent |-> st.srtContent]
  ELSE [i |-> st.i + 1, counter |-> st.counter + 1,
        srtContent |-> st.srtContent \o SrtBlock(lines[st.i], st.counter)]

\* the loop over lines
ConvertLines(lines) ==
  Scan(lines, LAMBDA st : ConvertStep(lines, st),
       [i |-> 1, counter |-> 1, srtContent |-> <<>>]).srtContent

\* convertMicroDVDToSRT(content) with the default fps
convertMicroDVDToSRT(content) == ConvertLines(SplitLines(content))

(***************************************************************************)
(* isBinarySubtitleFormat                                                  *)
(***************************************************************************)
ExtSrt == <<46, 115, 114, 116>>  \* ".srt"
ExtSsa == <<46, 115, 115, 97>>   \* ".ssa"
ExtAss == <<46, 97, 115, 115>>   \* ".ass"
ExtVtt == <<46, 118, 116, 116>>  \* ".vtt"
ExtSub == <<46, 115, 117, 98>>   \* ".sub"
ExtIdx == <<46, 105, 100, 120>>  \* ".idx"
ExtTxt == <<46, 116, 120, 116>>  \* ".txt"

SampleLimit == 100

\* a sample that is the whole buffer
WholeBuffer(buffer) == buffer

\* buffer.slice(0, Math.min(buffer.byteLength, 100)), each byte read as one character
Sample(buffer) == SubSeq(buffer, 1, IF Len(buffer) < SampleLimit THEN Len(buffer) ELSE SampleLimit)

isBinarySubtitleFormat(filename, buffer) ==
  LET lowerName == toLowerCase(filename) IN
  IF endsWith(lowerName, ExtSub) \/ endsWith(lowerName, ExtIdx)
  THEN ~StartsWithFramePair(Sample(buffer))
  ELSE FALSE

(***************************************************************************)
(* processSubtitle                                                         *)
(***************************************************************************)
\* preferredEncoding is <<>> when the argument is undefined, <<label>> when it is a
\* string, and a longer tuple when it is an array (a query parameter given twice).
IsFalsy(pe) == pe = <<>> \/ pe = <<"">>
IsArray(pe) == Len(pe) > 1

Threw(r) == "exception" \in DOMAIN r

\* filename.slice(0, -4) + ".srt"
\* a rename that appends .srt to the whole name
AppendSrt(filename) == filename \o ExtSrt

RenameToSrt(filename) ==
  (IF Len(filename) <= 4 THEN <<>> ELSE SubSeq(filename, 1, Len(filename) - 4)) \o ExtSrt

DedupeStep(s, st) ==
  [i |-> st.i + 1,
   acc |-> IF \E k \in 1..Len(st.acc) : st.acc[k] = s[st.i] THEN st.acc
           ELSE Append(st.acc, s[st.i])]

\* [...new Set(attempts)]
Dedupe(s) == Scan(s, LAMBDA st : DedupeStep(s, st), [i |-> 1, acc |-> <<>>]).acc

\* attempts reduced to the preferred encoding when one is given
PreferredOnly(pe) == IF IsFalsy(pe) THEN ENCODING_ATTEMPTS ELSE <<pe[1]>>

uniqueAttempts(pe) ==
  Dedupe(IF IsFalsy(pe) THEN ENCODING_ATTEMPTS ELSE <<pe[1]>> \o ENCODING_ATTEMPTS)

\* a loop that starts without the floor of line 369
NoFloorBest ==
  [highestQualityScore |-> 0 - 100, found |-> FALSE, text |-> <<>>, encoding |-> ""]

InitialBest == [highestQualityScore |-> 0 - 1, found |-> FALSE, text |-> <<>>, encoding |-> ""]

Promoted(score, cleaned, encoding) ==
  [highestQualityScore |-> score, found |-> TRUE, text |-> cleaned, encoding |-> encoding]

\* the comparison without the branch of lines 404-408
StrictlyGreaterOnly(cleaned, qualityScore, encoding, best) ==
  IF isLikelyArabic(cleaned) /\ (encoding = "windows-1256" \/ encoding = "iso-8859-6")
  THEN IF qualityScore + 5 > best.highestQualityScore
       THEN Promoted(qualityScore + 5, cleaned, encoding) ELSE best
  ELSE IF qualityScore > best.highestQualityScore
  THEN Promoted(qualityScore, cleaned, encoding)
  ELSE best

\* lines 388-408: the comparison of a candidate with the best so far
Compare(cleaned, qualityScore, encoding, best) ==
  IF isLikelyArabic(cleaned) /\ (encoding = "windows-1256" \/ encoding = "iso-8859-6")
  THEN IF qualityScore + 5 > best.highestQualityScore
       THEN Promoted(qualityScore + 5, cleaned, encoding) ELSE best
  ELSE IF qualityScore > best.highestQualityScore
  THEN Promoted(qualityScore, cleaned, encoding)
  ELSE IF qualityScore = best.highestQualityScore /\ LabelToLowerCase(encoding) = "utf-8"
  THEN Promoted(qualityScore, cleaned, encoding)
  ELSE best

\* lines 381-386: readabilityScore + (isGarbled ? -5 : 5)
qualityScore(cleaned) ==
  isReadableText(cleaned) + (IF hasGarbledText(cleaned) THEN 0 - 5 ELSE 5)

Score(cleaned, encoding, best) == Compare(cleaned, qualityScore(cleaned), encoding, best)

\* lines 379-380: d is what the construction of the decoder and decode gave
Candidate(d, encoding, best) ==
  IF d.threw \/ d.text = <<>> \/ IsBlank(d.text) THEN best
  ELSE Score(cleanSubtitleText(d.text), encoding, best)

\* an iteration that leaves the loop's result alone once a winner was promoted
KeepFirstWinner(rt, buffer, encoding, best) ==
  IF best.found THEN best
  ELSE Candidate(TextDecode(rt, encoding, FALSE, buffer), encoding, best)

\* one iteration of the loop over uniqueAttempts
TryEncoding(rt, buffer, encoding, best) ==
  Candidate(TextDecode(rt, encoding, FALSE, buffer), encoding, best)

\* the loop over uniqueAttempts
TrialLoop(rt, buffer, attempts) ==
  Scan(attempts,
       LAMBDA st : [i |-> st.i + 1, best |-> TryEncoding(rt, buffer, attempts[st.i], st.best)],
       [i |-> 1, best |-> InitialBest]).best

\* lines 415-429: the text and the file name after the loop; text = <<>> stands for an
\* undefined textContent (a text that passes the test of line 416 is never empty)
UseBest(best, filename) ==
  IF best.found /\ best.text # <<>> /\ best.encoding # ""
  THEN IF endsWith(toLowerCase(filename), ExtSub) /\ StartsWithFramePair(best.text)
       THEN [text |-> convertMicroDVDToSRT(best.text), filename |-> RenameToSrt(filename)]
       ELSE [text |-> best.text, filename |-> filename]
  ELSE [text |-> <<>>, filename |-> filename]

\* lines 368-433
TrialStage(rt, buffer, filename, pe) ==
  UseBest(TrialLoop(rt, buffer, uniqueAttempts(pe)), filename)

\* !textContent || textContent.trim().length === 0 || hasGarbledText(textContent)
Unusable(t) == t = <<>> \/ IsBlank(t) \/ hasGarbledText(t)

\* length of the match of [^\n\r]* at 1-based index i
NoBreakRun(s, i) == RunLength(s, i, LAMBDA c : c # Ch.LF /\ c # Ch.CR)

\* the match of {(\d+)}{(\d+)}([^\n\r]*) at st.i, n being the length of its frame pair
FrameLineStep(s, st, n) ==
  IF n = 0 THEN [i |-> st.i + 1, acc |-> st.acc]
  ELSE [i |-> st.i + n + NoBreakRun(s, st.i + n),
        acc |-> Append(st.acc, SubSeq(s, st.i, st.i + n + NoBreakRun(s, st.i + n) - 1))]

\* the matches of /\{(\d+)\}\{(\d+)\}([^\n\r]*)/g, each pushed as {m1}{m2}m3
FrameLines(s) ==
  Scan(s, LAMBDA st : FrameLineStep(s, st, FramePairAt(s, st.i)), [i |-> 1, acc |-> <<>>]).acc

\* 1-based index after \r?\n at index p; 0 = no match
AfterNewline(s, p) ==
  IF At(s, p, Ch.CR) /\ At(s, p + 1, Ch.LF) THEN p + 2
  ELSE IF At(s, p, Ch.LF) THEN p + 1
  ELSE 0

\* the lookahead (?=\r?\n\r?\n\d+\s*\r?\n|\s*$) at 1-based index e
EntryEndsAt(s, e) ==
  \/ LET a == AfterNewline(s, e)
         b == IF a = 0 THEN 0 ELSE AfterNewline(s, a)
         d == IF b = 0 THEN 0 ELSE DigitRun(s, b)
     IN  /\ d > 0
         /\ \E k \in (b + d)..(b + d + SpaceRun(s, b + d) - 1) : s[k] = Ch.LF
  \/ e + SpaceRun(s, e) = Len(s) + 1

\* the end of the shortest ([\s\S]*?) starting at e that the lookahead accepts (it
\* accepts the end of the string)
LazyBodyEnd(s, e) ==
  CHOOSE k \in e..(Len(s) + 1) : EntryEndsAt(s, k) /\ \A j \in e..(k - 1) : ~EntryEndsAt(s, j)

\* the match at index i of
\* /(\d+)\s*\r?\n(T)\s*-->\s*(T)\r?\n([\s\S]*?)(?=\r?\n\r?\n\d+\s*\r?\n|\s*$)/
\* with T = \d{2}:\d{2}:\d{2},\d{3}: [end, entry]; end = 0 when there is none
SrtEntryAt(s, i) ==
  LET d == DigitRun(s, i)
      t1 == i + d + SpaceRun(s, i + d)
      j == t1 + 12 + SpaceRun(s, t1 + 12)
      t2 == j + 3 + SpaceRun(s, j + 3)
      body == AfterNewline(s, t2 + 12)
  IN  IF /\ d > 0
         /\ t1 > i + d /\ s[t1 - 1] = Ch.LF
         /\ TimeAt(s, t1)
         /\ At(s, j, 45) /\ At(s, j + 1, 45) /\ At(s, j + 2, 62)
         /\ TimeAt(s, t2)
         /\ body > 0
      THEN LET e == LazyBodyEnd(s, body) IN
           [end |-> e,
            entry |-> SubSeq(s, i, i + d - 1) \o <<Ch.LF>> \o SubSeq(s, t1, t1 + 11) \o Arrow
                        \o SubSeq(s, t2, t2 + 11) \o <<Ch.LF>> \o SubSeq(s, body, e - 1)]
      ELSE [end |-> 0, entry |-> <<>>]

SrtEntryStep(st, m) ==
  IF m.end = 0 THEN [i |-> st.i + 1, acc |-> st.acc]
  ELSE [i |-> IF m.end > st.i THEN m.end ELSE st.i + 1, acc |-> Append(st.acc, m.entry)]

\* the matches of the entry pattern, each pushed as m1 \n m2 --> m3 \n m4
SrtEntries(s) ==
  Scan(s, LAMBDA st : SrtEntryStep(st, SrtEntryAt(s, st.i)), [i |-> 1, acc |-> <<>>]).acc

\* the class [\w\s.,!?;:'"()\[\]{}<>\/\\|@#$%^&*+=_-]
IsPrintable(c) ==
  \/ IsLetter(c) \/ IsDigit(c) \/ IsSpace(c)
  \/ c \in {95, 46, 44, 33, 63, 59, 58, 39, 34, 40, 41, 91, 93, 123, 125, 60, 62, 47, 92,
            124, 64, 35, 36, 37, 94, 38, 42, 43, 61, 45}

PrintableRun(s, i) == RunLength(s, i, IsPrintable)

\* /[a-zA-Z]{3,}/.test(match)
HasThreeLetters(s) ==
  \E i \in 1..(Len(s) - 2) : IsLetter(s[i]) /\ IsLetter(s[i + 1]) /\ IsLetter(s[i + 2])

MinRun == 10

PrintableRunStep(s, st, n) ==
  IF n < MinRun THEN [i |-> st.i + 1, acc |-> st.acc]
  ELSE [i |-> st.i + n,
        acc |-> IF HasThreeLetters(SubSeq(s, st.i, st.i + n - 1))
                THEN Append(st.acc, SubSeq(s, st.i, st.i + n - 1)) ELSE st.acc]

\* the matches of the {10,} run pattern that contain three letters in a row
PrintableRuns(s) ==
  Scan(s, LAMBDA st : PrintableRunStep(s, st, PrintableRun(s, st.i)),
       [i |-> 1, acc |-> <<>>]).acc

\* lines 447-457
UseFrameLines(st, lines) ==
  IF Len(lines) > 0
  THEN [text |-> convertMicroDVDToSRT(Join(lines, <<Ch.LF>>)),
        filename |-> RenameToSrt(st.filename)]
  ELSE st

\* lines 469-471
UseEntries(st, entries) ==
  IF Len(entries) > 0
  THEN [text |-> Join(entries, <<Ch.LF, Ch.LF>>), filename |-> st.filename]
  ELSE st

\* lines 442-473: the extraction the file name selects, on the bytes read as characters
RawExtraction(st, rawString) ==
  IF endsWith(toLowerCase(st.filename), ExtSub)
  THEN UseFrameLines(st, FrameLines(rawString))
  ELSE IF endsWith(toLowerCase(st.filename), ExtSrt)
  THEN UseEntries(st, SrtEntries(rawString))
  ELSE st

\* lines 486-488
UseMatches(st, filteredMatches) ==
  IF Len(filteredMatches) > 0
  THEN [text |-> Join(filteredMatches, <<Ch.LF, Ch.LF>>), filename |-> st.filename]
  ELSE st

\* lines 475-489
PrintableExtraction(st, rawString) ==
  IF Unusable(st.text) THEN UseMatches(st, PrintableRuns(rawString)) ELSE st

\* lines 491-493: cleanSubtitleText("") is "", so an undefined text stays <<>>
CleanStage(st) == [text |-> cleanSubtitleText(st.text), filename |-> st.filename]

\* lines 435-497
RawStage(st, buffer) ==
  IF Unusable(st.text)
  THEN CleanStage(PrintableExtraction(RawExtraction(st, buffer), buffer))
  ELSE st

\* a forced decode that is used only when no earlier text is left
KeepEarlierText(st, rawContent) ==
  IF Len(rawContent) > 0 /\ st.text = <<>>
  THEN [text |-> cleanSubtitleText(rawContent), filename |-> st.filename]
  ELSE st

\* lines 502-504
UseRawContent(st, rawContent) ==
  IF Len(rawContent) > 0
  THEN [text |-> cleanSubtitleText(rawContent), filename |-> st.filename]
  ELSE st

\* the forced decode without the test of line 499
AlwaysForced(st, buffer) == UseRawContent(st, Utf8Decode(buffer).text)

\* lines 499-509: new TextDecoder("utf-8").decode(...)
ForcedUtf8Stage(st, buffer) ==
  IF Unusable(st.text) THEN UseRawContent(st, Utf8Decode(buffer).text) ELSE st

HexDigit(n) == IF n < 10 THEN 48 + n ELSE 97 + (n - 10)

RECURSIVE HexOf(_)
\* Number.prototype.toString(16)
HexOf(n) == IF n < 16 THEN <<HexDigit(n)>> ELSE Append(HexOf(n \div 16), HexDigit(n % 16))

\* String.prototype.padEnd(width, " ")
padEnd(s, width) == s \o [k \in 1..(IF Len(s) >= width THEN 0 ELSE width - Len(s)) |-> 32]

blockSize == 16
HexDumpLimit == 512

\* one row `${offset}: ${hex} ${ascii}\n` of the dump, for the block at 0-based offset i
HexRow(buffer, i) ==
  LET block == SubSeq(buffer, i + 1, IF i + blockSize > Len(buffer) THEN Len(buffer) ELSE i + blockSize)
      hex == Join([k \in 1..Len(block) |-> padStart(HexOf(block[k]), 2)], <<32>>)
      ascii == [k \in 1..Len(block) |-> IF block[k] >= 32 /\ block[k] < 127 THEN block[k] ELSE Ch.DOT]
  IN  padStart(HexOf(i), 8) \o <<58, 32>> \o padEnd(hex, blockSize * 3) \o <<32>> \o ascii \o <<Ch.LF>>

\* the rows of the dump, in order: one for each block of the first HexDumpLimit bytes
HexDumpRows(buffer) ==
  [r \in 1..(((IF Len(buffer) < HexDumpLimit THEN Len(buffer) ELSE HexDumpLimit)
               + blockSize - 1) \div blockSize) |-> HexRow(buffer, (r - 1) * blockSize)]

FileSizePrefix == <<70, 105, 108, 101, 32, 115, 105, 122, 101, 58, 32>>  \* "File size: "
\* " bytes. hexdump (for the nerds):\n"
FileSizeSuffix ==
  <<32, 98, 121, 116, 101, 115, 46, 32, 104, 101, 120, 100, 117, 109, 112, 32, 40, 102, 111,
    114, 32, 116, 104, 101, 32, 110, 101, 114, 100, 115, 41, 58, 10>>

\* a final test that takes garbled text for no text
FailIfUnusable(st, buffer) ==
  IF Unusable(st.text)
  THEN [success |-> FALSE,
        error |-> <<"this subtitle file is empty">>,
        filename |-> st.filename,
        details |-> FileSizePrefix \o DigitsOf(Len(buffer)) \o FileSizeSuffix
                      \o Join(HexDumpRows(buffer), <<>>)]
  ELSE [success |-> TRUE, content |-> st.text, filename |-> st.filename]

\* lines 511-560
FinalResult(st, buffer) ==
  IF st.text = <<>> \/ IsBlank(st.text)
  THEN [success |-> FALSE,
        error |-> <<"this subtitle file is empty">>,
        filename |-> st.filename,
        details |-> FileSizePrefix \o DigitsOf(Len(buffer)) \o FileSizeSuffix
                      \o Join(HexDumpRows(buffer), <<>>)]
  ELSE [success |-> TRUE, content |-> st.text, filename |-> st.filename]

\* lines 355-362: d is what the strict decode gave; [skipped |-> TRUE] when it threw
FastResult(d, filename) ==
  IF d.threw THEN [skipped |-> TRUE]
  ELSE [success |-> TRUE, content |-> cleanSubtitleText(d.text), filename |-> filename,
        binary |-> FALSE, encoding |-> "utf-8"]

\* a fast path that is never taken
NoFastPath(rt, buffer, filename, pe) ==
  IF IsArray(pe) THEN [exception |-> "preferredEncoding.toLowerCase is not a function"]
  ELSE [skipped |-> TRUE]

\* a fast path that is taken only when no encoding is preferred
FastOnlyWithoutPreference(rt, buffer, filename, pe) ==
  IF IsArray(pe) THEN [exception |-> "preferredEncoding.toLowerCase is not a function"]
  ELSE IF IsFalsy(pe)
  THEN FastResult(TextDecode(rt, "utf-8", TRUE, buffer), filename)
  ELSE [skipped |-> TRUE]

\* lines 350-366: the strict UTF-8 fast path. A result, [exception |-> message] when the
\* argument has no toLowerCase method, or [skipped |-> TRUE] when the path is not taken
FastPath(rt, buffer, filename, pe) ==
  IF IsArray(pe) THEN [exception |-> "preferredEncoding.toLowerCase is not a function"]
  ELSE IF IsFalsy(pe) \/ LabelToLowerCase(pe[1]) = "utf-8"
  THEN FastResult(TextDecode(rt, "utf-8", TRUE, buffer), filename)
  ELSE [skipped |-> TRUE]

\* lines 368-560: what follows the fast path
SlowPath(rt, buffer, filename, pe) ==
  FinalResult(
    ForcedUtf8Stage(RawStage(TrialStage(rt, buffer, filename, pe), buffer), buffer),
    buffer)

OrElse(fast, slow) == IF "skipped" \notin DOMAIN fast THEN fast ELSE slow

\* lines 340-560: the body of the outer try
processSubtitleBody(rt, buffer, filename, pe) ==
  OrElse(FastPath(rt, buffer, filename, pe), SlowPath(rt, buffer, filename, pe))

\* lines 561-568: the outer catch
processSubtitleCatch(outcome, filename) ==
  IF Threw(outcome)
  THEN [success |-> FALSE,
        error |-> <<"Failed to extract text from ", filename>>,
        details |-> outcome.exception]
  ELSE outcome

processSubtitle(rt, buffer, filename, pe) ==
  processSubtitleCatch(processSubtitleBody(rt, buffer, filename, pe), filename)

(***************************************************************************)
(* unzipAndExtractSubtitle                                                 *)
(***************************************************************************)
textSubtitleExtensions == <<ExtSrt, ExtSsa, ExtAss, ExtVtt>>
allSubtitleExtensions == textSubtitleExtensions \o <<ExtSub, ExtIdx, ExtTxt>>

\* extensions.some((ext) => item.name.toLowerCase().endsWith(ext))
HasExtension(item, extensions) ==
  \E k \in 1..Len(extensions) : endsWith(toLowerCase(item.name), extensions[k])

\* unzipped.find(...): the 1-based index of the first match, 0 when there is none
FindIndex(unzipped, extensions) ==
  IF \E i \in 1..Len(unzipped) : HasExtension(unzipped[i], extensions)
  THEN CHOOSE i \in 1..Len(unzipped) :
         /\ HasExtension(unzipped[i], extensions)
         /\ \A k \in 1..(i - 1) : ~HasExtension(unzipped[k], extensions)
  ELSE 0

\* a selection that starts with the second search
SelectAnyFirst(unzipped) ==
  LET anyIdx == FindIndex(unzipped, allSubtitleExtensions)
  IN  IF anyIdx # 0 THEN anyIdx
      ELSE IF Len(unzipped) > 0 THEN 1
      ELSE 0

\* a selection without the last resort of lines 300-302
SelectWithoutLastResort(unzipped) ==
  LET textIdx == FindIndex(unzipped, textSubtitleExtensions)
      anyIdx == FindIndex(unzipped, allSubtitleExtensions)
  IN  IF textIdx # 0 THEN textIdx ELSE anyIdx

\* lines 284-302: the index of subtitleItem in unzipped, 0 when it is undefined
SelectSubtitleItem(unzipped) ==
  LET textIdx == FindIndex(unzipped, textSubtitleExtensions)
      anyIdx == FindIndex(unzipped, allSubtitleExtensions)
  IN  IF textIdx # 0 THEN textIdx
      ELSE IF anyIdx # 0 THEN anyIdx
      ELSE IF Len(unzipped) > 0 THEN 1
      ELSE 0

BinaryContentPrefix ==  \* "Binary subtitle format: "
  <<66, 105, 110, 97, 114, 121, 32, 115, 117, 98, 116, 105, 116, 108, 101, 32, 102, 111, 114,
    109, 97, 116, 58, 32>>
BinaryContentSuffix ==  \* " (it's not text, but it's honest work <farmer emoji>)"
  <<32, 40, 105, 116, 39, 115, 32, 110, 111, 116, 32, 116, 101, 120, 116, 44, 32, 98, 117,
    116, 32, 105, 116, 39, 115, 32, 104, 111, 110, 101, 115, 116, 32, 119, 111, 114, 107, 32,
    55357, 56424, 8205, 55356, 57150, 41>>

\* response?.status || "unknown", response?.statusText || "unknown"
OrUnknown(s) == IF s = "" THEN "unknown" ELSE s

\* lines 313-321
BinaryResult(subtitleItem) ==
  [success |-> TRUE, filename |-> subtitleItem.name, binary |-> TRUE,
   buffer |-> subtitleItem.buffer,
   content |-> BinaryContentPrefix \o subtitleItem.name \o BinaryContentSuffix]

\* what a run leaves behind when it returns before an entry is chosen
Early(outcome) == [outcome |-> outcome, subtitleItem |-> 0, isBinary |-> <<>>]

\* lines 311-323
ExtractItem(rt, subtitleItem, idx, isBinary, pe) ==
  [outcome |-> IF isBinary THEN BinaryResult(subtitleItem)
               ELSE processSubtitle(rt, subtitleItem.buffer, subtitleItem.name, pe),
   subtitleItem |-> idx,
   isBinary |-> <<isBinary>>]

\* lines 304-323: idx is the index of subtitleItem in unzipped, 0 when it is undefined
ExtractAt(rt, items, idx, pe) ==
  IF idx = 0 THEN Early([success |-> FALSE, error |-> <<"no subtitle file found">>])
  ELSE ExtractItem(rt, items[idx], idx,
                   isBinarySubtitleFormat(items[idx].name, items[idx].buffer), pe)

\* lines 236-323: the body of the try. response is what the fetch gave ("rejected" when
\* its promise rejects), parsed what response.arrayBuffer() and unzipjs.parse gave.
\* The value is the outcome (a result, or [exception |-> message] when something threw)
\* with the locals subtitleItem (an index into unzipped, 0 when never assigned) and
\* isBinary (<<>> when never assigned).
unzipAndExtractSubtitleBody(rt, response, parsed, pe) ==
  IF response.kind = "rejected" THEN Early([exception |-> "fetch failed"])
  ELSE IF response.kind = "null"
  THEN Early([success |-> FALSE,
              error |-> <<"Failed to fetch subtitle: ", "unknown", " ", "unknown">>])
  ELSE IF ~response.ok
  THEN Early([success |-> FALSE,
              error |-> <<"Failed to fetch subtitle: ", OrUnknown(response.status), " ",
                          OrUnknown(response.statusText)>>])
  ELSE IF parsed.threw THEN Early([exception |-> "unzipjs.parse failed"])
  ELSE IF Len(parsed.items) = 0
  THEN Early([success |-> FALSE, error |-> <<"ZIP file is empty">>])
  ELSE ExtractAt(rt, parsed.items, SelectSubtitleItem(parsed.items), pe)

\* an outcome no catch has handled
Uncaught(outcome) == outcome

\* lines 324-332: the catch (the error text ends with an emoji, left out here)
unzipAndExtractSubtitleCatch(outcome) ==
  IF Threw(outcome)
  THEN [success |-> FALSE,
        error |-> <<"Something broke! Time to blame it on the intern...">>,
        details |-> outcome.exception]
  ELSE outcome

unzipAndExtractSubtitle(rt, response, parsed, pe) ==
  unzipAndExtractSubtitleCatch(unzipAndExtractSubtitleBody(rt, response, parsed, pe).outcome)

Range(s) == {s[k] : k \in 1..Len(s)}

\* the encodings the loop of lines 375-413 constructs a decoder for: all of
\* uniqueAttempts when the fast path is left without a return, none otherwise
TrialledEncodings(rt, buffer, filename, pe) ==
  IF "skipped" \in DOMAIN FastPath(rt, buffer, filename, pe)
  THEN Range(uniqueAttempts(pe))
  ELSE {}

\* lines 435-509 as the texts they leave behind: trial is what the loop left, raw what
\* the extraction by file name left, printable what the printable-run extraction left,
\* cleaned what line 492 left, forced what the forced decode left; the Ran fields
\* say whether the test that guards a stage let it run
TraceAfterPrintable(trial, raw, printable, cleaned, buffer) ==
  [trial |-> trial,
   rawRan |-> TRUE, raw |-> raw,
   printableRan |-> Unusable(raw.text), printable |-> printable,
   cleaned |-> cleaned,
   forcedRan |-> Unusable(cleaned.text), forced |-> ForcedUtf8Stage(cleaned, buffer)]

TraceAfterRaw(trial, raw, printable, buffer) ==
  TraceAfterPrintable(trial, raw, printable, CleanStage(printable), buffer)

TraceOfRaw(trial, raw, buffer) ==
  TraceAfterRaw(trial, raw, PrintableExtraction(raw, buffer), buffer)

TraceAfterTrial(trial, buffer) ==
  IF Unusable(trial.text)
  THEN TraceOfRaw(trial, RawExtraction(trial, buffer), buffer)
  ELSE [trial |-> trial,
        rawRan |-> FALSE, raw |-> trial,
        printableRan |-> FALSE, printable |-> trial,
        cleaned |-> trial,
        forcedRan |-> FALSE, forced |-> trial]

\* the stages of lines 368-509 when the fast path is left without a return, <<>>
\* when it returns or throws
SlowTrace(rt, buffer, filename, pe) ==
  IF "skipped" \in DOMAIN FastPath(rt, buffer, filename, pe)
  THEN <<TraceAfterTrial(TrialStage(rt, buffer, filename, pe), buffer)>>
  ELSE <<>>

(***************************************************************************)
(* State                                                                   *)
(***************************************************************************)
VARIABLES
  text, before, passes,   \* the sanitizer's argument, its previous value, passes applied
  runtime,                \* the ICU data of the build that runs the code
  response,               \* what the fetch of the archive gave
  unzipped,               \* what response.arrayBuffer() and unzipjs.parse gave
  preferredEncoding,      \* the encoding argument of both entry points
  result,                 \* what unzipAndExtractSubtitle returned
  subtitleItem,           \* its local subtitleItem, as an index into unzipped
  isBinary,               \* its local isBinary
  direct,                 \* what processSubtitle returned when called on an entry
  call,                   \* a call of one of the helper functions: its arguments, then its value
  catalog,                \* the contents of the module-level array ENCODING_ATTEMPTS
  heap,                   \* the bytes of the ArrayBuffer the concurrent callers pass
  invocations             \* the calls of processSubtitle in progress: position and locals

sanitizeVars == <<text, before, passes>>
engineVars == <<runtime, response, unzipped, preferredEncoding, result, subtitleItem,
                isBinary, direct>>
vars == <<text, before, passes, runtime, response, unzipped, preferredEncoding, result,
          subtitleItem, isBinary, direct, call, catalog, heap, invocations>>
concurrentVars == <<catalog, heap, invocations>>

MaxTextLen == 4
MaxPasses == 2
MaxSuffix == 1
MaxEntries == 2
MaxDigits == 96

Pending == [pending |-> TRUE]
Returned(r) == "pending" \notin DOMAIN r

RECURSIVE SeqsUpTo(_, _)
\* the sequences over S of length at most n
SeqsUpTo(S, n) ==
  IF n = 0 THEN {<<>>}
  ELSE LET T == SeqsUpTo(S, n - 1) IN T \cup {Append(t, x) : t \in T, x \in S}

Name_movie_srt == <<109, 111, 118, 105, 101, 46, 115, 114, 116>>
Name_MOVIE_SRT == <<77, 79, 86, 73, 69, 46, 83, 82, 84>>
Name_notes_txt == <<110, 111, 116, 101, 115, 46, 116, 120, 116>>
Name_movie_sub == <<109, 111, 118, 105, 101, 46, 115, 117, 98>>
Name_MOVIE_SUB == <<77, 79, 86, 73, 69, 46, 83, 85, 66>>
Name_x_sub == <<120, 46, 115, 117, 98>>
Name_a_idx == <<97, 46, 105, 100, 120>>
Name_readme == <<114, 101, 97, 100, 109, 101>>
Name_subtitle_srt == <<115, 117, 98, 116, 105, 116, 108, 101, 46, 115, 114, 116>>

Bytes_frames == <<123, 49, 125, 123, 50, 125, 104, 105>>                \* {1}{2}hi
Bytes_hello == <<72, 101, 108, 108, 111, 44, 32, 87, 111, 114, 108, 100>> \* Hello, World
Bytes_hi == <<104, 105>>                                                  \* hi
Bytes_srt ==  \* 1 LF 00:00:01,000 --> 00:00:02,000 LF Hello LF
  <<49, 10, 48, 48, 58, 48, 48, 58, 48, 49, 44, 48, 48, 48, 32, 45, 45, 62, 32, 48, 48, 58,
    48, 48, 58, 48, 50, 44, 48, 48, 48, 10, 72, 101, 108, 108, 111, 10>>

Bytes_crlf == <<104, 105, 13, 10, 104, 105>>                             \* hi CR LF hi

\* the bytes the decode specification starts its buffers with: nothing, MicroDVD and
\* SRT text, plain text, text with CR LF, NUL, a UTF-8 byte-order mark, UTF-8 e-acute,
\* and three windows-1256 Arabic letters
Chunks ==
  {<<>>, Bytes_frames, Bytes_hello, Bytes_srt, Bytes_crlf, <<0>>, <<239, 187, 191>>,
   <<195, 169>>, <<199, 225, 227>>}

\* the bytes it ends them with: line feeds and bytes that are invalid in UTF-8
Suffixes == SeqsUpTo({10, 255}, MaxSuffix)

\* {1}{2} C3 A9 LF, a line of digits, FF FF: 101 bytes that are not valid UTF-8, with
\* one mojibake pair under windows-1252 and two replacement characters under utf-8
DigitLineLen == 89
Bytes_mojibake ==
  <<123, 49, 125, 123, 50, 125, 195, 169, 10>> \o [k \in 1..DigitLineLen |-> 49] \o <<255, 255>>

Buffers == {chunk \o suffix : chunk \in Chunks, suffix \in Suffixes}

Preferences == {<<>>, <<"">>, <<"utf-8">>, <<"UTF-8">>, <<"windows-1256">>, <<"klingon">>,
                <<"utf-8", "latin1">>}

Runtimes == {"full-icu", "small-icu"}

OkResponse == [kind |-> "response", ok |-> TRUE, status |-> "200", statusText |-> "OK"]
FailedResponses ==
  {[kind |-> "response", ok |-> FALSE, status |-> "404", statusText |-> "Not Found"],
   [kind |-> "response", ok |-> FALSE, status |-> "503", statusText |-> ""],
   [kind |-> "null"],
   [kind |-> "rejected"]}

Parsed(items) == [threw |-> FALSE, items |-> items]
ParseThrew == [threw |-> TRUE, items |-> <<>>]

Entry(name, buffer) == [name |-> name, buffer |-> buffer]

NoCall == [fn |-> "none"]

InitNoConcurrent == catalog = ENCODING_ATTEMPTS /\ heap = <<>> /\ invocations = <<>>

InitIdle ==
  /\ result = Pending
  /\ subtitleItem = 0
  /\ isBinary = <<>>
  /\ direct = Pending
  /\ call = NoCall
  /\ InitNoConcurrent

InitNoSanitize == text = <<>> /\ before = <<>> /\ passes = 0

(***************************************************************************)
(* Actions                                                                 *)
(***************************************************************************)
\* cleanSubtitleText applied to its own output
Sanitize ==
  /\ passes < MaxPasses
  /\ before' = text
  /\ text' = cleanSubtitleText(text)
  /\ passes' = passes + 1
  /\ UNCHANGED engineVars
  /\ UNCHANGED call
  /\ UNCHANGED concurrentVars

\* a call of unzipAndExtractSubtitle, from the fetch to the return
Extract ==
  /\ ~Returned(result)
  /\ \E run \in {unzipAndExtractSubtitleBody(runtime, response, unzipped, preferredEncoding)} :
       /\ result' = unzipAndExtractSubtitleCatch(run.outcome)
       /\ subtitleItem' = run.subtitleItem
       /\ isBinary' = run.isBinary
  /\ UNCHANGED <<runtime, response, unzipped, preferredEncoding, direct>>
  /\ UNCHANGED sanitizeVars
  /\ UNCHANGED call
  /\ UNCHANGED concurrentVars

\* a call of processSubtitle on the bytes and the name of an entry the caller holds,
\* made once the extraction has returned
ProcessDirect ==
  /\ Returned(result)
  /\ ~Returned(direct)
  /\ \E i \in 1..Len(unzipped.items) :
       direct' = [item |-> i,
                  result |-> processSubtitle(runtime, unzipped.items[i].buffer,
                                             unzipped.items[i].name, preferredEncoding),
                  trialled |-> TrialledEncodings(runtime, unzipped.items[i].buffer,
                                                 unzipped.items[i].name, preferredEncoding),
                  stages |-> SlowTrace(runtime, unzipped.items[i].buffer,
                                       unzipped.items[i].name, preferredEncoding)]
  /\ UNCHANGED <<runtime, response, unzipped, preferredEncoding, result, subtitleItem, isBinary>>
  /\ UNCHANGED sanitizeVars
  /\ UNCHANGED call
  /\ UNCHANGED concurrentVars

(***************************************************************************)
(* Specifications                                                          *)
(***************************************************************************)
SanitizeAlphabet == {Ch.BOM, Ch.REPL, Ch.NUL, Ch.CR, Ch.LF, 97}

InitSanitize ==
  /\ text \in SeqsUpTo(SanitizeAlphabet, MaxTextLen)
  /\ before = text
  /\ passes = 0
  /\ runtime = "full-icu"
  /\ response = OkResponse
  /\ unzipped = Parsed(<<>>)
  /\ preferredEncoding = <<>>
  /\ InitIdle

NextSanitize == Sanitize
SpecSanitize == InitSanitize /\ [][NextSanitize]_vars

\* one entry, its bytes drawn from Buffers, under every preference and runtime; and the
\* fetches and parses that fail
DecodeNames == {Name_movie_srt, Name_movie_sub, Name_notes_txt}

Init ==
  /\ InitNoSanitize
  /\ InitIdle
  /\ runtime \in Runtimes
  /\ preferredEncoding \in Preferences
  /\ \/ /\ response = OkResponse
        /\ \E name \in DecodeNames, buffer \in Buffers :
             unzipped = Parsed(<<Entry(name, buffer)>>)
     \/ /\ response = OkResponse
        /\ preferredEncoding = <<>>
        /\ unzipped = Parsed(<<Entry(Name_movie_sub, Bytes_mojibake)>>)
     \/ /\ response = OkResponse
        /\ unzipped = ParseThrew
     \/ /\ response \in FailedResponses
        /\ unzipped = Parsed(<<Entry(Name_movie_srt, Bytes_hello)>>)

Next == Extract \/ ProcessDirect
Spec == Init /\ [][Next]_vars

\* archives of up to MaxEntries entries
ArchiveNames ==
  {Name_movie_srt, Name_MOVIE_SRT, Name_notes_txt, Name_x_sub, Name_MOVIE_SUB, Name_a_idx,
   Name_readme}
ArchiveEntries ==
  {Entry(name, Bytes_frames) : name \in ArchiveNames} \cup {Entry(Name_x_sub, Bytes_hi)}

InitArchive ==
  /\ InitNoSanitize
  /\ InitIdle
  /\ runtime = "full-icu"
  /\ preferredEncoding \in {<<>>, <<"windows-1256">>}
  /\ response = OkResponse
  /\ unzipped \in {Parsed(items) : items \in SeqsUpTo(ArchiveEntries, MaxEntries)}

SpecArchive == InitArchive /\ [][Next]_vars

\* one entry whose bytes put the end of the frame pair around the end of the sample
Digits(k) == [i \in 1..k |-> 49]
FramesWithDigits(k) == <<Ch.LBRACE>> \o Digits(k) \o <<Ch.RBRACE>> \o SubSeq(Bytes_frames, 4, 8)
ClassifierNames ==
  {Name_movie_sub, Name_MOVIE_SUB, Name_a_idx, Name_movie_srt, Name_notes_txt, Name_readme}
ClassifierBuffers ==
  {FramesWithDigits(k) : k \in {1} \cup ((MaxDigits - 2)..MaxDigits)}
    \cup {<<>>, Bytes_hi, SubSeq(Bytes_frames, 1, 3) \o Bytes_hi, <<Ch.LBRACE, Ch.RBRACE>> \o SubSeq(Bytes_frames, 4, 8),
          <<32>> \o Bytes_frames, <<0, 255>>}

InitClassifier ==
  /\ InitNoSanitize
  /\ InitIdle
  /\ runtime \in Runtimes
  /\ preferredEncoding \in {<<>>, <<"utf-8">>}
  /\ response = OkResponse
  /\ \E name \in ClassifierNames, buffer \in ClassifierBuffers :
       unzipped = Parsed(<<Entry(name, buffer)>>)

SpecClassifier == InitClassifier /\ [][Next]_vars

\* the engine at rest, for the specifications of the helper functions
InitNoEngine ==
  /\ InitNoSanitize
  /\ runtime = "full-icu"
  /\ response = OkResponse
  /\ unzipped = Parsed(<<>>)
  /\ preferredEncoding = <<>>
  /\ result = Pending
  /\ subtitleItem = 0
  /\ isBinary = <<>>
  /\ direct = Pending
  /\ InitNoConcurrent

CallReturned == "value" \in DOMAIN call

\* hasGarbledText on short texts and on texts padded with spaces to the lengths
\* around the multiples of 100
MaxCore == 2
GarbledAlphabet == {Ch.REPL, 97, 195, 169, Ch.NONCHAR_FFFE}
Spaces(n) == [k \in 1..n |-> Ch.SP]
Repeat(c, n) == [k \in 1..n |-> c]
PadTo(core, total) == core \o Spaces(IF total > Len(core) THEN total - Len(core) ELSE 0)
PadTotals == {0} \cup {100 * h + d : h \in 1..(2 * MaxCore - 1), d \in {-1, 0, 1}}
GarbledTexts ==
  {PadTo(core, total) : core \in SeqsUpTo(GarbledAlphabet, MaxCore), total \in PadTotals}
    \cup {Repeat(97, 100), Repeat(Ch.REPL, 100)}

InitGarbled ==
  /\ InitNoEngine
  /\ call \in {[fn |-> "hasGarbledText", text |-> t] : t \in GarbledTexts}

ApplyHasGarbledText ==
  /\ call.fn = "hasGarbledText"
  /\ ~CallReturned
  /\ call' = [fn |-> call.fn, text |-> call.text, value |-> hasGarbledText(call.text)]
  /\ UNCHANGED sanitizeVars
  /\ UNCHANGED engineVars
  /\ UNCHANGED concurrentVars

NextGarbled == ApplyHasGarbledText
SpecGarbled == InitGarbled /\ [][NextGarbled]_vars

\* frameToSRTTime(frame, 25) on the frames up to MaxFrame
MaxFrame == 300

InitFrames ==
  /\ InitNoEngine
  /\ call \in {[fn |-> "frameToSRTTime", frame |-> f] : f \in 0..MaxFrame}

ApplyFrameToSRTTime ==
  /\ call.fn = "frameToSRTTime"
  /\ ~CallReturned
  /\ call' = [fn |-> call.fn, frame |-> call.frame, value |-> frameToSRTTime(call.frame)]
  /\ UNCHANGED sanitizeVars
  /\ UNCHANGED engineVars
  /\ UNCHANGED concurrentVars

NextFrames == ApplyFrameToSRTTime
SpecFrames == InitFrames /\ [][NextFrames]_vars

\* convertMicroDVDToSRT on contents of up to MaxLines lines
MaxLines == 3
Line_hello == <<123, 48, 125, 123, 50, 53, 125, 72, 101, 108, 108, 111>>   \* {0}{25}Hello
Line_world == <<123, 50, 53, 125, 123, 53, 48, 125, 87, 111, 114, 108, 100>>  \* {25}{50}World
Line_bare == <<123, 49, 125, 123, 50, 125>>                 \* {1}{2}
Line_cr == <<123, 53, 125, 123, 54, 125, 97, 13, 98>>       \* {5}{6}a CR b
Line_half == <<123, 51, 125, 123, 120, 125, 110, 111>>     \* {3}{x}no
Line_junk == <<106, 117, 110, 107>>
ConvertLineSet ==
  {Line_hello, Line_world, Line_bare, Line_cr, Line_half, Line_junk, <<>>, <<Ch.SP>>}
ConvertContents ==
  {Join(ls, <<Ch.LF>>) : ls \in SeqsUpTo(ConvertLineSet, MaxLines)}

InitConvert ==
  /\ InitNoEngine
  /\ call \in {[fn |-> "convertMicroDVDToSRT", content |-> c] : c \in ConvertContents}

ApplyConvertMicroDVDToSRT ==
  /\ call.fn = "convertMicroDVDToSRT"
  /\ ~CallReturned
  /\ call' = [fn |-> call.fn, content |-> call.content,
              value |-> convertMicroDVDToSRT(call.content)]
  /\ UNCHANGED sanitizeVars
  /\ UNCHANGED engineVars
  /\ UNCHANGED concurrentVars

NextConvert == ApplyConvertMicroDVDToSRT
SpecConvert == InitConvert /\ [][NextConvert]_vars

\* MaxInvocations calls of processSubtitle on one ArrayBuffer, their steps interleaved
MaxInvocations == 2
ConcurrentBuffers == {<<>>, <<195, 169, 255>>, <<199, 225, 227>>}
ConcurrentPreferences == {<<>>, <<"windows-1256">>, <<"klingon">>, <<"utf-8", "latin1">>}

ConcurrentName == Name_movie_srt
Invocation(pe) ==
  [pc |-> "called", filename |-> ConcurrentName, preferredEncoding |-> pe]

InitConcurrent ==
  /\ InitNoSanitize
  /\ runtime = "full-icu"
  /\ response = OkResponse
  /\ unzipped = Parsed(<<>>)
  /\ preferredEncoding = <<>>
  /\ result = Pending
  /\ subtitleItem = 0
  /\ isBinary = <<>>
  /\ direct = Pending
  /\ call = NoCall
  /\ catalog = ENCODING_ATTEMPTS
  /\ heap \in ConcurrentBuffers
  /\ invocations \in {[i \in 1..MaxInvocations |-> Invocation(pes[i])] :
                         pes \in [1..MaxInvocations -> ConcurrentPreferences]}

Done(inv, outcome) ==
  [pc |-> "done", filename |-> inv.filename, preferredEncoding |-> inv.preferredEncoding,
   result |-> outcome]

\* lines 340-366 of invocation i: the fast path, and the outer catch when it threw
AfterFastPath(inv, fast) ==
  IF "skipped" \in DOMAIN fast
  THEN [pc |-> "trial", filename |-> inv.filename, preferredEncoding |-> inv.preferredEncoding]
  ELSE Done(inv, processSubtitleCatch(fast, inv.filename))

TryFastPath(i) ==
  /\ invocations[i].pc = "called"
  /\ invocations' =
       [invocations EXCEPT ![i] =
          AfterFastPath(@, FastPath(runtime, heap, @.filename, @.preferredEncoding))]
  /\ UNCHANGED <<catalog, heap>>
  /\ UNCHANGED <<sanitizeVars, engineVars, call>>

\* ENCODING_ATTEMPTS.unshift(preferredEncoding) in the place of the spread
UnshiftInPlace(attempts, pe) ==
  [uniqueAttempts |-> Dedupe(IF IsFalsy(pe) THEN attempts ELSE <<pe[1]>> \o attempts),
   ENCODING_ATTEMPTS |-> IF IsFalsy(pe) THEN attempts ELSE <<pe[1]>> \o attempts]

\* lines 371-373: the arrays attempts and uniqueAttempts are new arrays; the spread
\* reads ENCODING_ATTEMPTS and leaves it as it is
BuildAttempts(attempts, pe) ==
  [uniqueAttempts |-> Dedupe(IF IsFalsy(pe) THEN attempts ELSE <<pe[1]>> \o attempts),
   ENCODING_ATTEMPTS |-> attempts]

\* lines 368-433 of invocation i: the trial loop and the use of its winner
AfterTrial(inv, st) ==
  [pc |-> "fallback", filename |-> st.filename, preferredEncoding |-> inv.preferredEncoding,
   textContent |-> st.text]

RunTrials(i) ==
  /\ invocations[i].pc = "trial"
  /\ \E built \in {BuildAttempts(catalog, invocations[i].preferredEncoding)} :
       /\ catalog' = built.ENCODING_ATTEMPTS
       /\ invocations' =
            [invocations EXCEPT ![i] =
               AfterTrial(@, UseBest(TrialLoop(runtime, heap, built.uniqueAttempts),
                                     @.filename))]
  /\ UNCHANGED heap
  /\ UNCHANGED <<sanitizeVars, engineVars, call>>

\* lines 435-560 of invocation i: the fallback stages and the result
RunFallbacks(i) ==
  /\ invocations[i].pc = "fallback"
  /\ invocations' =
       [invocations EXCEPT ![i] =
          Done(@, FinalResult(
                    ForcedUtf8Stage(
                      RawStage([text |-> @.textContent, filename |-> @.filename], heap),
                      heap),
                    heap))]
  /\ UNCHANGED <<catalog, heap>>
  /\ UNCHANGED <<sanitizeVars, engineVars, call>>

NextConcurrent ==
  \E i \in 1..MaxInvocations : TryFastPath(i) \/ RunTrials(i) \/ RunFallbacks(i)
SpecConcurrent == InitConcurrent /\ [][NextConcurrent]_vars

\* the scoring of one candidate of the trial loop, on texts of up to MaxPieces pieces
MaxPieces == 2
Piece_latin == <<72, 101, 108, 108, 111, 44, 32, 87, 111, 114, 108, 100>>   \* Hello, World
Piece_hi == <<72, 105>>
Piece_number == <<49, Ch.LF>>
Piece_times ==   \* 00:00:01,000 --> 00:00:02,000 LF
  <<48, 48, 58, 48, 48, 58, 48, 49, 44, 48, 48, 48, 32, 45, 45, 62, 32, 48, 48, 58, 48, 48, 58, 48, 50, 44, 48, 48, 48, Ch.LF>>
Piece_arabic == <<1575, 1604, 1587, 1604, 1575, 1605>>
Piece_replaced == <<Ch.REPL, Ch.REPL>>
ScorePieces == {Piece_latin, Piece_hi, Piece_number, Piece_times, Piece_arabic, Piece_replaced}

RECURSIVE Flatten(_)
Flatten(ps) == IF ps = <<>> THEN <<>> ELSE Head(ps) \o Flatten(Tail(ps))

ScoreTexts == {Flatten(ps) : ps \in SeqsUpTo(ScorePieces, MaxPieces)} \ {<<>>}
ScoreEncodings == {"utf-8", "windows-1252", "windows-1256", "iso-8859-6"}

InitScore ==
  /\ InitNoEngine
  /\ call \in {[fn |-> "Score", cleaned |-> t, encoding |-> e] :
                  t \in ScoreTexts, e \in ScoreEncodings}

\* lines 381-408 for one candidate, compared with the initial best of line 369
ApplyScore ==
  /\ call.fn = "Score"
  /\ ~CallReturned
  /\ call' = [fn |-> call.fn, cleaned |-> call.cleaned, encoding |-> call.encoding,
              value |-> [readabilityScore |-> isReadableText(call.cleaned),
                         isGarbled |-> hasGarbledText(call.cleaned),
                         qualityScore |-> qualityScore(call.cleaned),
                         best |-> Score(call.cleaned, call.encoding, InitialBest)]]
  /\ UNCHANGED sanitizeVars
  /\ UNCHANGED engineVars
  /\ UNCHANGED concurrentVars

NextScore == ApplyScore
SpecScore == InitScore /\ [][NextScore]_vars

\* the selection of lines 369-413 on lists of up to MaxCandidates candidates that passed
\* the test of line 379, each with its cleaned text and its qualityScore; the labels
\* "UTF-8" and "utf-8" name one decoder and carry the same text and score
MaxCandidates == 3
SelectLabels == {"UTF-8", "utf-8", "windows-1252", "windows-1256"}
SelectDecoders == {"utf-8", "windows-1252", "windows-1256"}
SelectScores == {0 - 6, 0 - 2, 0 - 1, 0, 4}
SelectTexts == {Piece_latin, Piece_arabic}
Injective(seq) == \A i, j \in 1..Len(seq) : seq[i] = seq[j] => i = j
SelectLists == {ls \in SeqsUpTo(SelectLabels, MaxCandidates) : ls # <<>> /\ Injective(ls)}

SelectCandidate(label, texts, scores) ==
  [encoding |-> label, cleaned |-> texts[LabelToLowerCase(label)],
   qualityScore |-> scores[LabelToLowerCase(label)]]

InitSelection ==
  /\ InitNoEngine
  /\ call \in {[fn |-> "select", i |-> 1, best |-> InitialBest,
                  candidates |-> [k \in 1..Len(ls) |-> SelectCandidate(ls[k], texts, scores)]] :
                  ls \in SelectLists, texts \in [SelectDecoders -> SelectTexts],
                  scores \in [SelectDecoders -> SelectScores]}

\* one iteration of the loop, from line 388 on
SelectNext ==
  /\ call.fn = "select"
  /\ call.i <= Len(call.candidates)
  /\ call' = [call EXCEPT
                !.i = @ + 1,
                !.best = Compare(call.candidates[call.i].cleaned,
                                 call.candidates[call.i].qualityScore,
                                 call.candidates[call.i].encoding, @)]
  /\ UNCHANGED sanitizeVars
  /\ UNCHANGED engineVars
  /\ UNCHANGED concurrentVars

NextSelection == SelectNext
SpecSelection == InitSelection /\ [][NextSelection]_vars

\* the trial loop of lines 369-413, one iteration at a time, on the buffers and the
\* preferences with which processSubtitle gets past its fast path
TrialPreferences == {<<>>, <<"utf-8">>, <<"UTF-8">>, <<"windows-1256">>, <<"klingon">>}

InitTrial ==
  /\ InitNoSanitize
  /\ runtime \in Runtimes
  /\ response = OkResponse
  /\ unzipped = Parsed(<<>>)
  /\ preferredEncoding \in TrialPreferences
  /\ result = Pending
  /\ subtitleItem = 0
  /\ isBinary = <<>>
  /\ direct = Pending
  /\ catalog = ENCODING_ATTEMPTS
  /\ heap \in Buffers
  /\ invocations = <<>>
  /\ "skipped" \in DOMAIN FastPath(runtime, heap, Name_movie_srt, preferredEncoding)
  /\ call = [fn |-> "trial", uniqueAttempts |-> uniqueAttempts(preferredEncoding),
             i |-> 1, visited |-> <<>>, best |-> InitialBest]

\* one iteration of the for loop of line 375
TryNextEncoding ==
  /\ call.fn = "trial"
  /\ call.i <= Len(call.uniqueAttempts)
  /\ call' = [call EXCEPT
                !.i = @ + 1,
                !.visited = Append(@, call.uniqueAttempts[call.i]),
                !.best = TryEncoding(runtime, heap, call.uniqueAttempts[call.i], @)]
  /\ UNCHANGED sanitizeVars
  /\ UNCHANGED engineVars
  /\ UNCHANGED concurrentVars

NextTrial == TryNextEncoding
SpecTrial == InitTrial /\ [][NextTrial]_vars

(***************************************************************************)
(* runWithConcurrency (src/utils/utils.ts)                                 *)
(***************************************************************************)
MaxItems == 3
MaxLimit == 3
Items == {"x", "y"}
Settlements == {"fulfilled", "rejected"}

\* a hole of new Array(items.length)
Hole == [hole |-> TRUE]

\* what the promise of task(item, index) is fulfilled with
TaskValue(item, index) == [item |-> item, index |-> index]

\* a pool with one worker for every item
OneWorkerPerItem(limit, n) == n

\* Math.min(limit, items.length), the length of the array of workers
WorkerCount(limit, n) == IF limit < n THEN limit ELSE n

\* an index that is read and not advanced
SameIndex(nextIndex) == nextIndex

\* nextIndex++ : the value of nextIndex after the claim
NextIndexAfter(nextIndex) == nextIndex + 1

\* lines 570-578: worker w runs from the top of its loop to its next await, or to break.
\* started and claims log the calls of task and the values of currentIndex
ClaimIndex(st, w) ==
  [st EXCEPT !.nextIndex = NextIndexAfter(@),
             !.claims = Append(@, [worker |-> w, index |-> st.nextIndex])]

InvokeTask(st, w, currentIndex) ==
  [st EXCEPT !.workers[w] = [state |-> "awaiting", currentIndex |-> currentIndex],
             !.started = Append(@, [worker |-> w, index |-> currentIndex,
                                    item |-> st.items[currentIndex + 1]])]

RunWorker(st, w) ==
  IF st.nextIndex >= Len(st.items)
  THEN [ClaimIndex(st, w) EXCEPT !.workers[w] = [state |-> "done"]]
  ELSE InvokeTask(ClaimIndex(st, w), w, st.nextIndex)

RECURSIVE SpawnWorkers(_, _)
\* line 580: Array.from({ length }, () => worker()), each worker run to its first await
SpawnWorkers(st, w) ==
  IF w > Len(st.workers) THEN st ELSE SpawnWorkers(RunWorker(st, w), w + 1)

\* lines 566-567 and the array of line 580 before its workers run
Allocate(st) ==
  [st EXCEPT !.results = [k \in 1..Len(st.items) |-> Hole],
             !.nextIndex = 0,
             !.workers = [w \in 1..WorkerCount(st.limit, Len(st.items)) |-> [state |-> "new"]],
             !.pc = "awaiting"]

\* the number of entries of log for index
CountOf(log, index) == Cardinality({k \in 1..Len(log) : log[k].index = index})

\* how the task of index settled; "" while it has not
OutcomeOf(st, index) ==
  IF CountOf(st.settled, index) = 0 THEN ""
  ELSE st.settled[CHOOSE k \in 1..Len(st.settled) :
                    /\ st.settled[k].index = index
                    /\ \A j \in 1..(k - 1) : st.settled[j].index # index].outcome

InitWorkers ==
  /\ InitNoEngine
  /\ call \in [fn : {"runWithConcurrency"}, items : SeqsUpTo(Items, MaxItems),
               limit : 0..MaxLimit, pc : {"called"}, results : {<<>>}, nextIndex : {0},
               workers : {<<>>}, claims : {<<>>}, started : {<<>>}, settled : {<<>>},
               promise : {[state |-> "pending"]}]

\* lines 562-581: the call up to await Promise.all(workers)
Enter ==
  /\ call.fn = "runWithConcurrency" /\ call.pc = "called"
  /\ call' = IF Len(call.items) = 0
             THEN [call EXCEPT !.pc = "returned",
                               !.promise = [state |-> "fulfilled", value |-> <<>>]]
             ELSE SpawnWorkers(Allocate(call), 1)
  /\ UNCHANGED sanitizeVars /\ UNCHANGED engineVars /\ UNCHANGED concurrentVars

\* the promise of a started task settles
Settle(index, outcome) ==
  /\ call.fn = "runWithConcurrency" /\ call.pc # "called"
  /\ CountOf(call.started, index) > CountOf(call.settled, index)
  /\ call' = [call EXCEPT !.settled = Append(@, [index |-> index, outcome |-> outcome])]
  /\ UNCHANGED sanitizeVars /\ UNCHANGED engineVars /\ UNCHANGED concurrentVars

\* line 576 after its await: worker w stores the value and runs on, or its promise
\* rejects and with it Promise.all and the call
Resume(w) ==
  /\ call.fn = "runWithConcurrency" /\ call.pc # "called"
  /\ w \in DOMAIN call.workers
  /\ call.workers[w].state = "awaiting"
  /\ OutcomeOf(call, call.workers[w].currentIndex) # ""
  /\ call' =
       IF OutcomeOf(call, call.workers[w].currentIndex) = "fulfilled"
       THEN RunWorker(
              [call EXCEPT !.results[call.workers[w].currentIndex + 1] =
                 TaskValue(call.items[call.workers[w].currentIndex + 1],
                           call.workers[w].currentIndex)],
              w)
       ELSE [call EXCEPT !.workers[w] = [state |-> "failed"],
                         !.pc = "returned",
                         !.promise = IF @.state = "pending" THEN [state |-> "rejected"] ELSE @]
  /\ UNCHANGED sanitizeVars /\ UNCHANGED engineVars /\ UNCHANGED concurrentVars

\* lines 581-583: every worker's promise is fulfilled
Return ==
  /\ call.fn = "runWithConcurrency" /\ call.pc = "awaiting"
  /\ \A w \in DOMAIN call.workers : call.workers[w].state = "done"
  /\ call' = [call EXCEPT !.pc = "returned",
                          !.promise = [state |-> "fulfilled", value |-> call.results]]
  /\ UNCHANGED sanitizeVars /\ UNCHANGED engineVars /\ UNCHANGED concurrentVars

NextWorkers ==
  \/ Enter
  \/ \E index \in 0..(MaxItems - 1), outcome \in Settlements : Settle(index, outcome)
  \/ \E w \in 1..MaxLimit : Resume(w)
  \/ Return
SpecWorkers == InitWorkers /\ [][NextWorkers]_vars

(***************************************************************************)
(* Properties                                                              *)
(***************************************************************************)
\* the entry unzipAndExtractSubtitle chose, and the entry processSubtitle was called on
Selected == unzipped.items[subtitleItem]
DirectEntry == unzipped.items[direct.item]

\* the archive was fetched and parsed
Unzipped == response = OkResponse /\ ~unzipped.threw

\* C1: a success of processSubtitle that carries text carries a non-empty text, on
\* every return path and for a zero-length buffer too.
C1_SuccessContentNonEmpty ==
  (Returned(direct) /\ direct.result.success /\ "content" \in DOMAIN direct.result)
    => direct.result.content # <<>>

\* a result with a success flag and, when it is a failure, an error text
Structured(r) ==
  /\ "success" \in DOMAIN r
  /\ "exception" \notin DOMAIN r
  /\ "skipped" \notin DOMAIN r
  /\ r.success \in BOOLEAN
  /\ ~r.success => ("error" \in DOMAIN r /\ r.error # <<>>)

\* C2: unzipAndExtractSubtitle and processSubtitle let no exception escape: whatever
\* the fetch, the parse and the decoders did, each returns one structured result, a
\* success or a failure with an error text.
C2_NoExceptionEscapes ==
  /\ Returned(result) => Structured(result)
  /\ Returned(direct) => Structured(direct.result)

\* a rejected fetch and an argument without toLowerCase, each answered with a failure
C2_Witness ==
  /\ Returned(result) /\ response.kind = "rejected" /\ "details" \in DOMAIN result
  /\ Returned(direct) /\ IsArray(preferredEncoding) /\ ~direct.result.success

\* processSubtitle returned from valid UTF-8 bytes of a non-empty text, no encoding
\* having been asked for
DirectOnUtf8 ==
  /\ Returned(direct)
  /\ preferredEncoding = <<>>
  /\ Utf8Decode(DirectEntry.buffer).ok
  /\ Utf8Decode(DirectEntry.buffer).text # <<>>

\* the result is a success in utf-8 and no encoding of the catalog was tried
Utf8Success ==
  /\ direct.result.success
  /\ "encoding" \in DOMAIN direct.result
  /\ direct.result.encoding = "utf-8"
  /\ direct.trialled = {}

\* C3: on valid UTF-8 bytes of a non-empty text and without a preferred encoding,
\* processSubtitle returns a success with encoding "utf-8" whose content is the
\* sanitized UTF-8 decoding of the bytes, and tries no encoding of the catalog.
C3_Utf8Priority ==
  DirectOnUtf8 =>
    /\ Utf8Success
    /\ direct.result.content = cleanSubtitleText(Utf8Decode(DirectEntry.buffer).text)

\* valid UTF-8 whose sanitized text differs from its decoding
C3_Witness ==
  /\ DirectOnUtf8
  /\ Utf8Success
  /\ direct.result.content # Utf8Decode(DirectEntry.buffer).text

\* C3 as stated: the content is the UTF-8 decoding of the bytes itself.
C3_ContentIsDecoding ==
  DirectOnUtf8 =>
    /\ Utf8Success
    /\ direct.result.content = Utf8Decode(DirectEntry.buffer).text

\* C4: a .sub entry classified as text whose decoded text begins with {digits}{digits}
\* comes back, on success, converted to SRT and renamed from .sub to .srt, whichever
\* path decoded it.
C4_MicroDVDConverted ==
  (/\ Returned(result)
   /\ isBinary = <<FALSE>>
   /\ endsWith(toLowerCase(Selected.name), ExtSub)
   /\ Utf8Decode(Selected.buffer).ok
   /\ StartsWithFramePair(Utf8Decode(Selected.buffer).text)
   /\ result.success)
    => /\ endsWith(result.filename, ExtSrt)
       /\ ~StartsWithFramePair(result.content)

\* C5: processSubtitle on an entry returns what unzipAndExtractSubtitle returns on the
\* archive that holds this entry alone.
C5_DecodeEqualsExtract ==
  (Returned(result) /\ Returned(direct) /\ Unzipped /\ Len(unzipped.items) = 1)
    => direct.result = result

\* C6: for an entry classified as binary the result holds the entry's bytes and name
\* unchanged and no content field.
C6_BinaryPassThrough ==
  isBinary = <<TRUE>>
    => /\ result.buffer = Selected.buffer
       /\ result.filename = Selected.name
       /\ "content" \notin DOMAIN result

\* the name ends, whatever its case, in .srt, .ssa, .ass or .vtt
TextNative(name) ==
  \E ext \in {ExtSrt, ExtSsa, ExtAss, ExtVtt} : endsWith(toLowerCase(name), ext)

\* C7: in an archive with an entry whose name ends in .srt, .ssa, .ass or .vtt, the
\* first such entry is the one selected, whatever precedes it.
C7_FirstTextNativeSelected ==
  (Returned(result) /\ Unzipped)
    => \A i \in 1..Len(unzipped.items) :
         (/\ TextNative(unzipped.items[i].name)
          /\ \A k \in 1..(i - 1) : ~TextNative(unzipped.items[k].name))
           => subtitleItem = i

\* notes.txt before movie.srt, movie.srt selected
C7_Witness ==
  /\ Returned(result)
  /\ Len(unzipped.items) = 2
  /\ unzipped.items[1].name = Name_notes_txt
  /\ unzipped.items[2].name = Name_movie_srt
  /\ subtitleItem = 2

\* C8: an archive without entries gives the failure "archive is empty", with no
\* selection, no classification, no decoding and no content.
C8_EmptyArchive ==
  (Returned(result) /\ Unzipped /\ unzipped.items = <<>>)
    => /\ ~result.success
       /\ result.error = <<"archive is empty">>
       /\ subtitleItem = 0
       /\ isBinary = <<>>
       /\ "content" \notin DOMAIN result

\* the first n bytes of b spell {digits}{digits}
BeginsWithFrames(b, n) ==
  /\ n >= 6
  /\ b[1] = 123
  /\ \E p \in 3..(n - 3) :
       /\ b[p] = 125 /\ b[p + 1] = 123
       /\ \A k \in 2..(p - 1) : b[k] \in 48..57
       /\ \E q \in (p + 3)..n :
            b[q] = 125 /\ \A k \in (p + 2)..(q - 1) : b[k] \in 48..57

\* C9: an entry is classified as binary exactly when its name ends, whatever its case,
\* in .sub or .idx and its first min(length, 100) bytes do not begin with
\* {digits}{digits}.
C9_BinaryIff ==
  isBinary # <<>>
    => (isBinary[1]
          <=> /\ \E ext \in {ExtSub, ExtIdx} : endsWith(toLowerCase(Selected.name), ext)
              /\ ~BeginsWithFrames(Selected.buffer,
                                   IF Len(Selected.buffer) < 100 THEN Len(Selected.buffer)
                                   ELSE 100))

\* a .sub entry that is binary only because its frame pair ends after the sample
C9_Witness ==
  /\ isBinary = <<TRUE>>
  /\ endsWith(toLowerCase(Selected.name), ExtSub)
  /\ StartsWithFramePair(Selected.buffer)

\* C10: the sanitizer is idempotent: a second pass changes nothing.
C10_SanitizeIdempotent == passes >= 2 => text = before

\* C11: an archive whose one entry has zero bytes ends in a failure whose details are
\* the hex dump with no rows.
C11_EmptyEntryFails ==
  (Returned(result) /\ Unzipped /\ Len(unzipped.items) = 1
     /\ unzipped.items[1].buffer = <<>>)
    => /\ ~result.success
       /\ "details" \in DOMAIN result
       /\ result.details = FileSizePrefix \o <<48>> \o FileSizeSuffix

\* the text is empty after trimming
Blank(t) == t = <<>> \/ IsBlank(t)

\* the stages of the call that returned, when it left the fast path
Stages == direct.stages[1]

\* what the stages left is what the final test of line 511 turned into the result
StagesGiveResult ==
  direct.result = FinalResult(Stages.forced, DirectEntry.buffer)

\* the failure of the outer catch: an exception thrown before any stage ran
CaughtBeforeStages ==
  /\ direct.stages = <<>>
  /\ direct.trialled = {}
  /\ direct.result.error = <<"Failed to extract text from ", DirectEntry.name>>
  /\ "details" \in DOMAIN direct.result

\* the failure of line 530: every stage has run and the text is empty after trimming
ChainExhausted ==
  /\ direct.stages # <<>>
  /\ direct.trialled # {}
  /\ Stages.rawRan /\ Stages.printableRan /\ Stages.forcedRan
  /\ Blank(Stages.forced.text)
  /\ direct.result.error = <<"this subtitle file is empty">>

PositionInRun(s, i) == Cardinality({j \in 1..i : \A k \in j..i : s[k] = Ch.REPL})

Followed(s, first(_), second(_)) ==
  Cardinality({i \in 1..(Len(s) - 1) : first(s[i]) /\ second(s[i + 1])})

IsRepl(c) == c = Ch.REPL
IsContinuation(c) == c >= 160 /\ c <= 191

\* the replacement characters plus the matches of each of the eight signatures, counted
\* position by position: a run of n replacement characters holds n \div 2 disjoint
\* pairs and n \div 3 disjoint triples
GarbledCount(s) ==
  Cardinality({i \in 1..Len(s) : s[i] = Ch.REPL})
  + Cardinality({i \in 1..Len(s) : PositionInRun(s, i) > 0 /\ PositionInRun(s, i) % 2 = 0})
  + Followed(s, IsRepl, IsLetter)
  + Followed(s, IsLetter, IsRepl)
  + Cardinality({i \in 1..Len(s) : PositionInRun(s, i) > 0 /\ PositionInRun(s, i) % 3 = 0})
  + Cardinality({i \in 1..Len(s) : s[i] = Ch.NONCHAR_FFFE})
  + Cardinality({i \in 1..Len(s) : s[i] = Ch.NONCHAR_FFFF})
  + Followed(s, LAMBDA c : c = 195, IsContinuation)
  + Followed(s, LAMBDA c : c = 194, IsContinuation)

\* C13: hasGarbledText returns true for the empty string, and for a non-empty string
\* returns true exactly when the count of replacement characters and signature matches,
\* divided by the length, is strictly above 0.01; 100 Latin letters are not garbled,
\* 100 replacement characters are, and a text at exactly 1% is not
C13_GarbledThreshold ==
  CallReturned /\ call.fn = "hasGarbledText" =>
    /\ call.text = <<>> => call.value
    /\ call.text # <<>> => (call.value <=> 100 * GarbledCount(call.text) > Len(call.text))
    /\ call.text = Repeat(97, 100) => ~call.value
    /\ call.text = Repeat(Ch.REPL, 100) => call.value
    /\ call.text # <<>> /\ 100 * GarbledCount(call.text) = Len(call.text) => ~call.value

\* a text of 300 code units with two adjacent replacement characters (count 3) was judged
C13_Witness ==
  /\ CallReturned /\ call.fn = "hasGarbledText"
  /\ Len(call.text) = 300
  /\ GarbledCount(call.text) = 3
  /\ ~call.value


\* HH:MM:SS,mmm of a whole number of milliseconds
FormatMilliseconds(ms) ==
  padStart(DigitsOf(ms \div 3600000), 2) \o <<58>>
    \o padStart(DigitsOf((ms \div 60000) % 60), 2) \o <<58>>
    \o padStart(DigitsOf((ms \div 1000) % 60), 2) \o <<44>>
    \o padStart(DigitsOf(ms % 1000), 3)

\* C14: frameToSRTTime(frame, fps) is the formatting of floor(frame * 1000 / fps)
\* milliseconds as zero-padded HH:MM:SS,mmm, for every non-negative frame (here at the
\* 25 fps the converter passes); frame 250 gives 00:00:10,000 and frame 0 00:00:00,000
C14_TruncatedMilliseconds ==
  CallReturned /\ call.fn = "frameToSRTTime" =>
    call.value = FormatMilliseconds((call.frame * 1000) \div DefaultFps)


\* the positions of the line feeds of s, and its pieces between them
LineFeeds(s) == {i \in 1..Len(s) : s[i] = Ch.LF}
NthLineFeed(s, m) ==
  IF m = 0 THEN 0
  ELSE IF m > Cardinality(LineFeeds(s)) THEN Len(s) + 1
  ELSE CHOOSE i \in LineFeeds(s) : Cardinality({j \in LineFeeds(s) : j < i}) = m - 1
Piece(s, m) == SubSeq(s, NthLineFeed(s, m - 1) + 1, NthLineFeed(s, m) - 1)
PieceCount(s) == Cardinality(LineFeeds(s)) + 1

\* a line of the shape {digits}{digits}text, and the index where its text begins
FrameLineText(l) ==
  {t \in 7..(Len(l) + 1) :
     \E d \in 3..(t - 4) :
       /\ l[1] = Ch.LBRACE /\ l[d] = Ch.RBRACE /\ l[d + 1] = Ch.LBRACE /\ l[t - 1] = Ch.RBRACE
       /\ \A k \in (2..(d - 1)) \cup ((d + 2)..(t - 2)) : IsDigit(l[k])}
MatchingLines(s) == {m \in 1..PieceCount(s) : FrameLineText(Piece(s, m)) # {}}
NthMatching(s, j) ==
  CHOOSE m \in MatchingLines(s) : Cardinality({n \in MatchingLines(s) : n < m}) = j - 1
\* the text of a matching line: what follows the frame pair, up to a line terminator
TextOfLine(l) ==
  LET t == CHOOSE x \in FrameLineText(l) : TRUE
      ends == {e \in t..(Len(l) + 1) : e = Len(l) + 1 \/ IsLineTerminator(l[e])}
      e == CHOOSE x \in ends : \A y \in ends : x <= y
  IN  SubSeq(l, t, e - 1)

MicroDVDExample == <<123, 48, 125, 123, 50, 53, 125, 72, 101, 108, 108, 111, 10, 123, 50, 53, 125, 123, 53, 48, 125, 87, 111, 114, 108, 100>>
MicroDVDExampleSrt ==
  <<49, 10, 48, 48, 58, 48, 48, 58, 48, 48, 44, 48, 48, 48, 32, 45, 45, 62, 32, 48, 48, 58, 48, 48, 58, 48, 49, 44, 48, 48, 48, 10, 72, 101, 108, 108, 111, 10, 10, 50, 10, 48, 48, 58, 48, 48, 58, 48, 49, 44, 48, 48, 48, 32, 45, 45, 62, 32, 48, 48, 58, 48, 48, 58, 48, 50, 44, 48, 48, 48, 10, 87, 111, 114, 108, 100, 10, 10>>

\* C15: convertMicroDVDToSRT emits one block per line of the shape {start}{end}text, in
\* input order, numbered 1..k with k the number of such lines; other lines and blank
\* lines are skipped without taking a number; {0}{25}Hello LF {25}{50}World gives
\* blocks 1 and 2 with 00:00:00,000 --> 00:00:01,000 and 00:00:01,000 --> 00:00:02,000
C15_OneBlockPerMatchingLine ==
  CallReturned /\ call.fn = "convertMicroDVDToSRT" =>
    /\ PieceCount(call.value) = 4 * Cardinality(MatchingLines(call.content)) + 1
    /\ \A j \in 1..Cardinality(MatchingLines(call.content)) :
         /\ Piece(call.value, 4 * j - 3) = DigitsOf(j)
         /\ Len(Piece(call.value, 4 * j - 2)) = 29
         /\ SubSeq(Piece(call.value, 4 * j - 2), 13, 17) = Arrow
         /\ Piece(call.value, 4 * j - 1)
              = TextOfLine(Piece(call.content, NthMatching(call.content, j)))
         /\ Piece(call.value, 4 * j) = <<>>
    /\ Piece(call.value, PieceCount(call.value)) = <<>>
    /\ call.content = MicroDVDExample => call.value = MicroDVDExampleSrt

\* a content whose first line is skipped and whose two other lines became blocks 1 and 2
C15_Witness ==
  /\ CallReturned /\ call.fn = "convertMicroDVDToSRT"
  /\ MatchingLines(call.content) = {2, 3}
  /\ Piece(call.value, 1) = <<49>>
  /\ Piece(call.value, 5) = <<50>>


\* a preferredEncoding string for which new TextDecoder(label) throws on this build
Unrecognized(rt, pe) ==
  ~IsFalsy(pe) /\ ~IsArray(pe) /\ TextDecode(rt, pe[1], FALSE, <<>>).threw

\* what processSubtitle gives from the trial loop over ENCODING_ATTEMPTS alone
CatalogAlone(rt, buffer, filename) ==
  FinalResult(
    ForcedUtf8Stage(
      RawStage(UseBest(TrialLoop(rt, buffer, ENCODING_ATTEMPTS), filename), buffer),
      buffer),
    buffer)

\* C16: an unrecognized preferredEncoding is tolerated: its own trial throws and is
\* skipped, no error of it reaches the result, every encoding of ENCODING_ATTEMPTS is
\* still tried, and the text after the trial loop and the result returned are those
\* the trial loop over ENCODING_ATTEMPTS alone gives for the same bytes
C16_InvalidPreferenceTolerated ==
  Returned(direct) /\ Unrecognized(runtime, preferredEncoding) =>
    /\ Range(ENCODING_ATTEMPTS) \subseteq direct.trialled
    /\ direct.stages # <<>>
    /\ Stages.trial
         = UseBest(TrialLoop(runtime, DirectEntry.buffer, ENCODING_ATTEMPTS), DirectEntry.name)
    /\ direct.result = CatalogAlone(runtime, DirectEntry.buffer, DirectEntry.name)

\* a call with the label "klingon" whose trial loop found a text and which succeeded
C16_Witness ==
  /\ Returned(direct)
  /\ preferredEncoding = <<"klingon">>
  /\ Unrecognized(runtime, preferredEncoding)
  /\ direct.stages # <<>>
  /\ Stages.trial.text # <<>>
  /\ direct.result.success


InvocationDone(i) == i \in DOMAIN invocations /\ invocations[i].pc = "done"

\* C17: the calls of processSubtitle are independent: no step of any call changes
\* ENCODING_ATTEMPTS (the only module-level state) or the bytes of the buffer it was
\* given, and under every interleaving each call returns what the call alone returns
\* for its arguments, whether the other calls fail or succeed
C17_InvocationsIndependent ==
  [][/\ catalog' = catalog
     /\ heap' = heap
     /\ \A i \in DOMAIN invocations' :
          invocations'[i].pc = "done" =>
            invocations'[i].result
              = processSubtitle(runtime', heap', ConcurrentName,
                                invocations'[i].preferredEncoding)]_vars

\* two calls on the same buffer have returned, one with a failure and one with a success
C17_Witness ==
  /\ InvocationDone(1) /\ InvocationDone(2)
  /\ ~invocations[1].result.success
  /\ invocations[2].result.success


\* the fallback chain of lines 435-509 was entered by the call
ChainRan == Returned(direct) /\ direct.stages # <<>> /\ Stages.rawRan

\* C18: a stage's output is accepted only if it is non-empty and not garbled: every
\* text returned as success content after the fallback chain has run is not garbled
\* according to hasGarbledText, and a garbled output of the last stage is not returned
C18_AcceptedOutputNotGarbled ==
  ChainRan /\ direct.result.success =>
    /\ ~hasGarbledText(direct.result.content)
    /\ ~hasGarbledText(Stages.forced.text)


SuccessWith(st) == [success |-> TRUE, content |-> st.text, filename |-> st.filename]
HexDumpFailure ==
  /\ ~direct.result.success
  /\ "details" \in DOMAIN direct.result
  /\ direct.result.error = <<"this subtitle file is empty">>

\* C19: the fallback stages run in order and each only when needed, "empty" being
\* read as empty or all whitespace (the test of the code is on the trimmed text):
\* a trial winner that is neither blank nor garbled is returned as it is; when the
\* text after raw-byte extraction is neither blank nor garbled the printable-run
\* extraction leaves it alone; when the sanitized text after stages 1 and 2 is neither
\* blank nor garbled the forced decode leaves it alone and it is returned; and the
\* hex-dump failure is returned only when every stage ran and the last text is blank
C19_StagesOnlyWhenNeeded ==
  Returned(direct) /\ direct.stages # <<>> =>
    /\ ~Unusable(Stages.trial.text) =>
         ~Stages.rawRan /\ direct.result = SuccessWith(Stages.trial)
    /\ Stages.rawRan /\ ~Unusable(Stages.raw.text) =>
         Stages.printable = Stages.raw
    /\ Stages.rawRan /\ ~Unusable(Stages.cleaned.text) =>
         direct.result = SuccessWith(Stages.cleaned)
    /\ HexDumpFailure =>
         /\ Unusable(Stages.trial.text) /\ Unusable(Stages.raw.text)
         /\ Unusable(Stages.cleaned.text) /\ Blank(Stages.forced.text)

\* the chain was entered, the raw-byte extraction gave a usable text, and that text,
\* sanitized, was returned without the later stages replacing it
C19_Witness ==
  /\ ChainRan
  /\ ~Unusable(Stages.raw.text)
  /\ Stages.raw.text # Stages.trial.text
  /\ ~Unusable(Stages.cleaned.text)
  /\ direct.result = SuccessWith(Stages.cleaned)

EmptyOrGarbled(t) == t = <<>> \/ hasGarbledText(t)

\* C19 as stated, "empty" being the empty string: the chain is not entered when the
\* trial winner is non-empty and not garbled, and the hex-dump failure is produced only
\* if the text after the forced decode is empty
C19_StagesOnlyWhenEmpty ==
  Returned(direct) /\ direct.stages # <<>> =>
    /\ ~EmptyOrGarbled(Stages.trial.text) =>
         ~Stages.rawRan /\ direct.result = SuccessWith(Stages.trial)
    /\ Stages.rawRan /\ ~EmptyOrGarbled(Stages.raw.text) =>
         Stages.printable = Stages.raw
    /\ Stages.rawRan /\ ~EmptyOrGarbled(Stages.cleaned.text) =>
         direct.result = SuccessWith(Stages.cleaned)
    /\ HexDumpFailure => Stages.forced.text = <<>>


\* readability = 1*hasDigits + 3*(hasLatinLetters or hasArabicScript) + 1*hasPunctuation
\* + 2*hasLineOfLength(5,100) + 3*hasSrtTimestampPattern + 2*hasLeadingSequenceNumber
ReferenceReadability(s) ==
  (IF \E i \in 1..Len(s) : IsDigit(s[i]) THEN 1 ELSE 0)
  + (IF (\E i \in 1..Len(s) : IsLetter(s[i])) \/ isLikelyArabic(s) THEN 3 ELSE 0)
  + (IF \E i \in 1..Len(s) : IsPunctuation(s[i]) THEN 1 ELSE 0)
  + (IF \E k \in 1..Len(SplitLines(s)) :
          Len(SplitLines(s)[k]) > 5 /\ Len(SplitLines(s)[k]) < 100 THEN 2 ELSE 0)
  + (IF hasTimestamps(s) THEN 3 ELSE 0)
  + (IF hasSequentialNumbering(s) THEN 2 ELSE 0)

\* quality = readability + (isGarbled ? -5 : +5), plus 5 for Arabic text decoded as
\* windows-1256 or iso-8859-6
ReferenceQuality(s, encoding) ==
  ReferenceReadability(s) + (IF hasGarbledText(s) THEN 0 - 5 ELSE 5)
  + (IF isLikelyArabic(s) /\ encoding \in {"windows-1256", "iso-8859-6"} THEN 5 ELSE 0)

\* C20: for every candidate of the trial loop the score used for the comparison is the
\* reference formula: the readability terms, plus or minus 5 for the garbled verdict,
\* plus 5 for Arabic text under windows-1256 or iso-8859-6, and no other term for any
\* text, short, garbled or Arabic
C20_ScoreIsReferenceFormula ==
  CallReturned /\ call.fn = "Score" =>
    /\ call.value.readabilityScore = ReferenceReadability(call.cleaned)
    /\ call.value.best.found =>
         call.value.best.highestQualityScore = ReferenceQuality(call.cleaned, call.encoding)


\* the loop over the candidates has ended
SelectionDone == call.fn = "select" /\ call.i > Len(call.candidates)

\* the score a candidate is compared with: its qualityScore, plus 5 for an Arabic text
\* under windows-1256 or iso-8859-6
ComparedScore(c) ==
  c.qualityScore
  + (IF isLikelyArabic(c.cleaned) /\ c.encoding \in {"windows-1256", "iso-8859-6"}
     THEN 5 ELSE 0)

MaxComparedScore(cs) ==
  CHOOSE m \in {ComparedScore(cs[k]) : k \in 1..Len(cs)} :
    \A k \in 1..Len(cs) : ComparedScore(cs[k]) <= m

Utf8AttainsMax(cs) ==
  \E k \in 1..Len(cs) :
    /\ LabelToLowerCase(cs[k].encoding) = "utf-8"
    /\ ComparedScore(cs[k]) = MaxComparedScore(cs)

\* C21: whenever the candidate named utf-8 (in any letter case) has a score equal to the
\* maximum over all candidates, the winner promoted by the loop is the utf-8 decode,
\* wherever utf-8 stands in the list, also when a windows-1256 candidate reached the
\* same score through the Arabic bonus; a winner is promoted when that maximum is
\* at least the initial -1
C21_Utf8WinsTies ==
  SelectionDone /\ Utf8AttainsMax(call.candidates) =>
    /\ call.best.found =>
         /\ LabelToLowerCase(call.best.encoding) = "utf-8"
         /\ call.best.highestQualityScore = MaxComparedScore(call.candidates)
         /\ \E k \in 1..Len(call.candidates) :
              /\ call.candidates[k].encoding = call.best.encoding
              /\ call.candidates[k].cleaned = call.best.text
    /\ MaxComparedScore(call.candidates) >= 0 - 1 => call.best.found

\* utf-8 came after a windows-1256 candidate that reached the same score through the
\* Arabic bonus, and utf-8 was promoted
C21_Witness ==
  /\ SelectionDone
  /\ Len(call.candidates) >= 2
  /\ call.candidates[1].encoding = "windows-1256"
  /\ isLikelyArabic(call.candidates[1].cleaned)
  /\ call.candidates[2].encoding = "utf-8"
  /\ ComparedScore(call.candidates[1]) = ComparedScore(call.candidates[2])
  /\ call.candidates[1].qualityScore # call.candidates[2].qualityScore
  /\ call.best.found /\ call.best.encoding = "utf-8"


TrialDone == call.fn = "trial" /\ call.i > Len(call.uniqueAttempts)

\* the candidate an encoding gives for the buffer: its decode, when the decoder exists
\* and the decode is not blank, sanitized and scored
DecodedCandidate(rt, buffer, encoding) ==
  [encoding |-> encoding,
   cleaned |-> cleanSubtitleText(TextDecode(rt, encoding, FALSE, buffer).text),
   qualityScore |-> qualityScore(cleanSubtitleText(TextDecode(rt, encoding, FALSE, buffer).text))]

IsCandidate(rt, buffer, encoding) ==
  /\ ~TextDecode(rt, encoding, FALSE, buffer).threw
  /\ ~Blank(TextDecode(rt, encoding, FALSE, buffer).text)

CandidateScores(rt, buffer, encodings) ==
  {ComparedScore(DecodedCandidate(rt, buffer, e)) :
     e \in {x \in encodings : IsCandidate(rt, buffer, x)}}

\* the list [preferredEncoding, ...ENCODING_ATTEMPTS] without repetitions
ExpectedAttempts(pe) ==
  IF IsFalsy(pe) THEN ENCODING_ATTEMPTS
  ELSE <<pe[1]>> \o SelectSeq(ENCODING_ATTEMPTS, LAMBDA e : e # pe[1])

\* C22: the trial loop never stops early: it goes through every encoding of the list
\* [preferredEncoding, ...ENCODING_ATTEMPTS], the preference first and each label
\* once, and the score of the promoted winner is the maximum of the scores of the
\* candidates whose decode is not blank; a winner is promoted when that maximum is
\* above the initial -1
C22_EveryCandidateTried ==
  TrialDone =>
    /\ call.visited = ExpectedAttempts(preferredEncoding)
    /\ Injective(call.visited)
    /\ call.best.found =>
         /\ call.best.highestQualityScore \in CandidateScores(runtime, heap, Range(call.visited))
         /\ \A sc \in CandidateScores(runtime, heap, Range(call.visited)) :
              sc <= call.best.highestQualityScore
    /\ (\E sc \in CandidateScores(runtime, heap, Range(call.visited)) : sc > 0 - 1)
         => call.best.found

\* a loop that promoted a first winner and went on to promote a later one with a
\* higher score
C22_Witness ==
  /\ TrialDone
  /\ call.best.found
  /\ Cardinality(CandidateScores(runtime, heap, Range(call.visited))) >= 2
  /\ call.best.encoding = "windows-1256"
  /\ preferredEncoding = <<>>
  /\ IsCandidate(runtime, heap, "windows-1252")


BinaryCapable(name) ==
  \E ext \in {ExtSub, ExtIdx, ExtTxt} : endsWith(toLowerCase(name), ext)

NoTextNative == \A i \in 1..Len(unzipped.items) : ~TextNative(unzipped.items[i].name)

\* C23: in a non-empty archive without a text-native entry the entry selected is the
\* first whose name ends, in any letter case, in .sub, .idx or .txt, and the first
\* entry of the archive when there is none; for every non-empty archive one entry of
\* the archive is selected and the result is never "no subtitle file found"
C23_FallbackSelection ==
  Returned(result) /\ Unzipped /\ Len(unzipped.items) > 0 =>
    /\ subtitleItem \in 1..Len(unzipped.items)
    /\ "error" \in DOMAIN result => result.error # <<"no subtitle file found">>
    /\ NoTextNative =>
         /\ \A i \in 1..Len(unzipped.items) :
              (/\ BinaryCapable(unzipped.items[i].name)
               /\ \A k \in 1..(i - 1) : ~BinaryCapable(unzipped.items[k].name))
                => subtitleItem = i
         /\ (\A i \in 1..Len(unzipped.items) : ~BinaryCapable(unzipped.items[i].name))
              => subtitleItem = 1

\* an archive of two entries without a recognized extension: the first one selected
C23_Witness ==
  /\ Returned(result)
  /\ Len(unzipped.items) = 2
  /\ \A i \in 1..2 : ~TextNative(unzipped.items[i].name) /\ ~BinaryCapable(unzipped.items[i].name)
  /\ subtitleItem = 1
  /\ "error" \notin DOMAIN result \/ result.error # <<"no subtitle file found">>


\* the forced decode of line 501 ran and gave a non-empty string
ForcedOnNonEmpty ==
  /\ Returned(direct) /\ direct.stages # <<>>
  /\ Stages.forcedRan
  /\ Utf8Decode(DirectEntry.buffer).text # <<>>

ForcedText == cleanSubtitleText(Utf8Decode(DirectEntry.buffer).text)

\* C24: whenever the forced lenient UTF-8 stage runs on a buffer whose lenient decoding
\* is not empty, the text carried forward is the sanitized lenient decoding, whatever
\* the trial winner and the extractions had left; it is returned as success, also when
\* it holds replacement characters and is garbled, unless it is blank, in which case the
\* hex-dump failure is returned
C24_ForcedDecodeReplaces ==
  ForcedOnNonEmpty =>
    /\ Stages.forced.text = ForcedText
    /\ Stages.forced.filename = Stages.cleaned.filename
    /\ ~Blank(ForcedText) => direct.result = SuccessWith(Stages.forced)
    /\ Blank(ForcedText) => HexDumpFailure

\* an earlier text was left by the stages before, the forced decode replaced it, and
\* the garbled forced decode was returned
C24_Witness ==
  /\ ForcedOnNonEmpty
  /\ Stages.cleaned.text # <<>>
  /\ Stages.cleaned.text # ForcedText
  /\ hasGarbledText(ForcedText)
  /\ direct.result.success
  /\ direct.result.content = ForcedText

\* C24 as stated: the forced decode of a non-empty lenient decoding is always returned
\* as success
C24_ForcedDecodeAlwaysSuccess ==
  ForcedOnNonEmpty =>
    /\ Stages.forced.text = ForcedText
    /\ direct.result.success
    /\ "content" \in DOMAIN direct.result /\ direct.result.content = ForcedText


SomeScoreAbove(cs, n) == \E k \in 1..Len(cs) : ComparedScore(cs[k]) > n
Utf8ScoresExactly(cs, n) ==
  \E k \in 1..Len(cs) :
    LabelToLowerCase(cs[k].encoding) = "utf-8" /\ ComparedScore(cs[k]) = n

\* C25: a candidate is promoted only on a score strictly above the initial -1, or, for
\* the candidate named utf-8 only, on a score equal to the best so far, -1 included;
\* so when every candidate scores -1 or less and utf-8 does not score exactly -1, the
\* loop ends without a winner, textContent stays undefined and the test that opens the
\* fallback chain is true, although the candidates had non-empty texts
C25_PromotionFloor ==
  SelectionDone =>
    /\ call.best.found <=>
         (SomeScoreAbove(call.candidates, 0 - 1) \/ Utf8ScoresExactly(call.candidates, 0 - 1))
    /\ call.best.found =>
         \/ call.best.highestQualityScore > 0 - 1
         \/ /\ call.best.highestQualityScore = 0 - 1
            /\ LabelToLowerCase(call.best.encoding) = "utf-8"
    /\ ~call.best.found =>
         /\ call.best = InitialBest
         /\ Unusable(UseBest(call.best, Name_movie_srt).text)

\* every candidate had a non-empty text and a score of -1 or less, one of them exactly
\* -1, and the loop ended without a winner
C25_Witness ==
  /\ SelectionDone
  /\ ~call.best.found
  /\ \A k \in 1..Len(call.candidates) : call.candidates[k].cleaned # <<>>
  /\ \E k \in 1..Len(call.candidates) : ComparedScore(call.candidates[k]) = 0 - 1


EndsInSub(name) == endsWith(toLowerCase(name), ExtSub)

\* the name with its last four code units replaced by .srt
WithSrtExtension(name) == SubSeq(name, 1, Len(name) - 4) \o <<46, 115, 114, 116>>

WinnerIsFrames(best) == best.found /\ StartsWithFramePair(best.text)

\* the conversion of line 425: the winner of the trial loop of a .sub name begins with
\* a frame pair
ConvertedInTrial ==
  /\ direct.stages # <<>>
  /\ EndsInSub(DirectEntry.name)
  /\ WinnerIsFrames(TrialLoop(runtime, DirectEntry.buffer, uniqueAttempts(preferredEncoding)))

\* the conversion of line 452: the chain was entered under a .sub name and the raw
\* bytes hold frame lines
ConvertedInChain ==
  /\ direct.stages # <<>>
  /\ Stages.rawRan
  /\ EndsInSub(Stages.trial.filename)
  /\ FrameLines(DirectEntry.buffer) # <<>>

FilenameFrame(inTrial, inChain) ==
  /\ ~(inTrial /\ inChain)
  /\ (inTrial \/ inChain) =>
       /\ EndsInSub(DirectEntry.name)
       /\ direct.result.filename = WithSrtExtension(DirectEntry.name)
  /\ ~(inTrial \/ inChain) => direct.result.filename = DirectEntry.name

\* C26: the filename of the result of processSubtitle is the input filename unless a
\* MicroDVD conversion happened, and then it is the input filename with its last four
\* characters replaced by .srt; the name is rewritten at most once per call (a name
\* renamed in the trial phase no longer ends in .sub when the chain runs), and only
\* for input names that end in .sub in any letter case
C26_FilenameFrame ==
  Returned(direct) /\ "filename" \in DOMAIN direct.result =>
    FilenameFrame(ConvertedInTrial, ConvertedInChain)

\* a call on movie.sub whose trial phase left the name alone and whose chain converted
\* the frame lines of the raw bytes: the result is named movie.srt
C26_Witness ==
  /\ Returned(direct) /\ "filename" \in DOMAIN direct.result
  /\ ConvertedInChain
  /\ DirectEntry.name = Name_movie_sub
  /\ direct.result.filename = Name_movie_srt


PrefersUtf8 == preferredEncoding = <<"utf-8">>

\* C27: a call of processSubtitle that prefers "utf-8" returns what the call without a
\* preferred encoding returns on the same buffer and filename: the same variant, content,
\* filename and encoding. The fast path is taken under the same condition and the
\* deduplicated list of attempts is the catalog
C27_Utf8PreferenceIsNone ==
  Returned(direct) /\ PrefersUtf8 =>
    /\ uniqueAttempts(preferredEncoding) = ENCODING_ATTEMPTS
    /\ ("skipped" \in DOMAIN FastPath(runtime, DirectEntry.buffer, DirectEntry.name, preferredEncoding))
         = ("skipped" \in DOMAIN FastPath(runtime, DirectEntry.buffer, DirectEntry.name, <<>>))
    /\ direct.result = processSubtitle(runtime, DirectEntry.buffer, DirectEntry.name, <<>>)

\* a call that prefers "utf-8" on a buffer that is not valid UTF-8: the trial loop ran
\* over the deduplicated list and a candidate was returned
C27_Witness ==
  /\ Returned(direct) /\ PrefersUtf8
  /\ direct.stages # <<>>
  /\ ~Stages.rawRan
  /\ direct.result.success

\* a call that prefers "utf-8" on a valid UTF-8 buffer, answered by the fast path
C27_FastWitness ==
  /\ Returned(direct) /\ PrefersUtf8
  /\ direct.stages = <<>>
  /\ "encoding" \in DOMAIN direct.result


Running == call.fn = "runWithConcurrency"
Resolved == Running /\ call.promise.state = "fulfilled"
NoRejection == \A k \in 1..Len(call.settled) : call.settled[k].outcome = "fulfilled"
ItemIndexes == 0..(Len(call.items) - 1)

\* C28: a call of runWithConcurrency with limit >= 1 whose tasks all resolve, under
\* every interleaving of its workers: no index is claimed by two workers and task is
\* never invoked twice on an item; when the call resolves, every index was claimed by
\* exactly one worker, task was invoked exactly once on every item with that item and
\* index, every task has settled, and the array returned has the length of items with
\* results[i] the value of task(items[i], i); on an empty list the call returns an
\* empty array and task is never invoked
C28_EachItemOnce ==
  Running /\ call.limit >= 1 /\ NoRejection =>
    /\ \A index \in ItemIndexes :
         /\ CountOf(call.claims, index) <= 1
         /\ CountOf(call.started, index) <= 1
    /\ \A k \in 1..Len(call.started) :
         /\ call.started[k].index \in ItemIndexes
         /\ call.started[k].item = call.items[call.started[k].index + 1]
    /\ Resolved =>
         /\ \A index \in ItemIndexes :
              /\ CountOf(call.claims, index) = 1
              /\ CountOf(call.started, index) = 1
              /\ CountOf(call.settled, index) = 1
         /\ Len(call.promise.value) = Len(call.items)
         /\ \A index \in ItemIndexes :
              call.promise.value[index + 1] = TaskValue(call.items[index + 1], index)
    /\ Len(call.items) = 0 /\ call.pc # "called" =>
         /\ Resolved
         /\ call.promise.value = <<>>
         /\ call.started = <<>>

\* three items run by two workers, the second task settling before the first: the
\* call resolved with the three values in the order of the items
C28_Witness ==
  /\ Resolved
  /\ Len(call.items) = 3 /\ call.limit = 2
  /\ call.settled[1].index = 1 /\ call.settled[2].index = 0
  /\ call.promise.value[1] = TaskValue(call.items[1], 0)

\* an empty list, returned as an empty array
C28_EmptyWitness == Resolved /\ call.items = <<>> /\ call.limit >= 1

InFlight == Len(call.started) - Len(call.settled)
Smaller(a, b) == IF a <= b THEN a ELSE b

\* C29: at every moment of a call of runWithConcurrency the tasks started and not yet
\* settled number at most min(limit, items.length), and a worker that has started a
\* task has seen every task it started before settle
C29_BoundedParallelism ==
  Running =>
    /\ InFlight <= Smaller(call.limit, Len(call.items))
    /\ \A a, b \in 1..Len(call.started) :
         a < b /\ call.started[a].worker = call.started[b].worker =>
           CountOf(call.settled, call.started[a].index) >= 1

\* two workers over three items, both awaiting a task, one of them its second
C29_Witness ==
  /\ Running
  /\ call.limit = 2 /\ Len(call.items) = 3
  /\ InFlight = 2
  /\ Len(call.started) = 3

====
